---------------------------- MODULE Spec2Model ----------------------------
(***************************************************************************)
(* Model of the button classification / prioritisation core of            *)
(* src/click_api.py (class SmartButtonAutomation and its Flask handlers).  *)
(*                                                                         *)
(* Text is modelled by TLA+ strings; `pattern in combined_text` is the     *)
(* substring test Contains.  TLA+ strings are ASCII, so every Arabic code  *)
(* point of the keyword tables is written as one ASCII symbol that no      *)
(* Latin text of the model uses (digits and punctuation):                  *)
(*   U+0621 HAMZA -> 0          U+0622 ALEF MADDA -> 1   U+0623 ALEF HAMZA ABOVE -> 2 *)
(*   U+0625 ALEF HAMZA BELOW -> 3   U+0627 ALEF -> 4     U+0628 BEH -> 5   *)
(*   U+0629 TEH MARBUTA -> 6    U+062A TEH -> 7          U+062B THEH -> 8  *)
(*   U+062C JEEM -> 9           U+062D HAH -> !          U+062F DAL -> #   *)
(*   U+0631 REH -> $            U+0632 ZAIN -> %         U+0633 SEEN -> &  *)
(*   U+0634 SHEEN -> +          U+0637 TAH -> ,          U+0638 ZAH -> /   *)
(*   U+0639 AIN -> :            U+063A GHAIN -> ;        U+0641 FEH -> <   *)
(*   U+0642 QAF -> =            U+0643 KAF -> >          U+0644 LAM -> ?   *)
(*   U+0645 MEEM -> @           U+0646 NOON -> [         U+0647 HEH -> ]   *)
(*   U+0648 WAW -> ^            U+0649 ALEF MAKSURA -> {  U+064A YEH -> |  *)
(*   U+064B FATHATAN -> }       U+0635 SAD -> *          U+062E KHAH -> (  *)
(***************************************************************************)
EXTENDS Integers, Sequences, FiniteSets, TLC

VARIABLES
    cb_pc,      \* "call" before categorize_button has run, "return" after
    cb_in,      \* the arguments of the categorize_button call
    cb_out,     \* its return value (NoTriple before the return)
    playwright, \* self.playwright is set
    browser,    \* self.browser is set
    page,       \* self.page is set
    last_typing_time,   \* self.last_typing_time
    document,   \* the document the request's page.goto loaded: positions of
                \* ElementPool
    pc,         \* "idle", "loop" (in the for loop of process_all_buttons),
                \* "return" (behind it), "done" (the handler is returning)
    req,        \* the request being served: handler, url, categories
    buttons,    \* the local `buttons` of the handler, filtered and sorted
    scanned,    \* what find_all_buttons returned to the handler
    idx,        \* position of the for loop in buttons
    results,    \* the local `results`
    processed_count,    \* the local `processed_count`
    clicks,     \* the elements (positions of the document) whose click() was
                \* called, in call order
    guards,     \* the runs of wait_for_typing_completion, in call order
    faults,     \* the kinds of exception raised while serving the request
    response,   \* what the handler returned
    threads,    \* the request threads of the Flask server: what each is
                \* serving and where it stands
    page_url,   \* the URL the shared page shows
    sel_pc,     \* "call" before generate_advanced_selector has run, "return"
                \* after
    sel_in,     \* its argument: the element and its ancestors
    sel_out,    \* its locals at the return: selectors and path_parts
    el_pc,      \* "call" before categorize_element_advanced has run,
                \* "return" after
    el_in,      \* its argument: the element, and the number of li below it
    el_out,     \* the dictionary it returns
    memo,       \* history: the classification call that is followed, how
                \* often it was made, and what it returned the first time
    ab_pc,      \* "call" before analyze_button has run, "return" after
    ab_in,      \* its argument: the element, with the inputs of its parent
    ab_out,     \* the Button Record it returns
    wg,         \* the locals of one call of wait_for_typing_completion
    wg_stream,  \* what the calls of input_value() give during that call
    sc_pc,      \* "call" before smart_button_click has run, "return" after
    sc_in,      \* its argument and what the page and the clock do meanwhile
    sc_out,     \* what it returns and what it did
    fl_clock,   \* the reading of time.time(), in seconds
    fl_last_fill, \* history: the reading when the last fill operation
                \* completed, 0 when there was none
    fs_pc,      \* "call" before find_all_buttons has run, "return" after
    fs_in,      \* the document on the page and the selectors whose query raises
    fs_out,     \* the list it returns
    dr_running  \* history: the Playwright drivers started and not stopped

catVars == <<cb_pc, cb_in, cb_out>>
thrVars == <<threads, page_url>>
selVars == <<sel_pc, sel_in, sel_out>>
elVars == <<el_pc, el_in, el_out>>
abVars == <<ab_pc, ab_in, ab_out>>
wgVars == <<wg, wg_stream>>
scVars == <<sc_pc, sc_in, sc_out>>
flVars == <<fl_clock, fl_last_fill>>
fsVars == <<fs_pc, fs_in, fs_out>>
auxVars ==
    <<thrVars, selVars, elVars, memo, abVars, wgVars, scVars, flVars, fsVars,
      dr_running>>
vars == <<cb_pc, cb_in, cb_out, playwright, browser, page, last_typing_time,
          document, pc, req, buttons, scanned, idx, results, processed_count, clicks,
          guards, faults, response, threads, page_url, sel_pc, sel_in, sel_out,
          el_pc, el_in, el_out, memo, ab_pc, ab_in, ab_out,
          wg, wg_stream, sc_pc, sc_in, sc_out, fl_clock, fl_last_fill,
          fs_pc, fs_in, fs_out, dr_running>>

\* the variables of the other specifications keep their values; g names the
\* group of variables the specification at hand works on
AuxUnchanged(g) ==
    /\ IF g = "threads" THEN TRUE ELSE UNCHANGED thrVars
    /\ IF g = "selector" THEN TRUE ELSE UNCHANGED selVars
    /\ IF g \in {"element", "memo"} THEN TRUE ELSE UNCHANGED elVars
    /\ IF g = "memo" THEN TRUE ELSE UNCHANGED memo
    /\ IF g = "analyze" THEN TRUE ELSE UNCHANGED abVars
    /\ IF g = "guard" THEN TRUE ELSE UNCHANGED wgVars
    /\ IF g = "click" THEN TRUE ELSE UNCHANGED scVars
    /\ IF g = "flag" THEN TRUE ELSE UNCHANGED flVars
    /\ IF g = "scan" THEN TRUE ELSE UNCHANGED fsVars
    /\ IF g = "drivers" THEN TRUE ELSE UNCHANGED dr_running

\* no request thread is running
ThrIdle ==
    /\ threads = <<>>
    /\ page_url = ""

\* generate_advanced_selector is not being called
SelIdle ==
    /\ sel_pc = "unused"
    /\ sel_in = <<>>
    /\ sel_out = <<>>

\* categorize_element_advanced is not being called
ElIdle ==
    /\ el_pc = "unused"
    /\ el_in = <<>>
    /\ el_out = <<>>

\* analyze_button is not being called
AbIdle ==
    /\ ab_pc = "unused"
    /\ ab_in = <<>>
    /\ ab_out = <<>>

\* wait_for_typing_completion is not being followed step by step
WgIdle ==
    /\ wg = <<>>
    /\ wg_stream = <<>>

\* smart_button_click is not being followed
ScIdle ==
    /\ sc_pc = "unused"
    /\ sc_in = <<>>
    /\ sc_out = <<>>

\* the clock is not followed
FlIdle ==
    /\ fl_clock = 0
    /\ fl_last_fill = 0

\* find_all_buttons is not being followed
FsIdle ==
    /\ fs_pc = "unused"
    /\ fs_in = <<>>
    /\ fs_out = <<>>

AuxIdle(g) ==
    /\ IF g = "threads" THEN TRUE ELSE ThrIdle
    /\ IF g = "selector" THEN TRUE ELSE SelIdle
    /\ IF g = "element" THEN TRUE ELSE ElIdle
    /\ IF g = "memo" THEN TRUE ELSE memo = <<>>
    /\ IF g = "analyze" THEN TRUE ELSE AbIdle
    /\ IF g = "guard" THEN TRUE ELSE WgIdle
    /\ IF g = "click" THEN TRUE ELSE ScIdle
    /\ IF g = "flag" THEN TRUE ELSE FlIdle
    /\ IF g = "scan" THEN TRUE ELSE FsIdle
    /\ IF g = "drivers" THEN TRUE ELSE dr_running = 0

---------------------------------------------------------------------------
(* Bounds *)

\* number of vocabulary words a combined text of the classification
\* specification is made of
MaxWords == 2

\* number of elements of a document
MaxPage == 3

\* earliest reading of the wall clock, in seconds since the epoch
MinNow == 1000

---------------------------------------------------------------------------
(* Strings *)

Min(a, b) == IF a < b THEN a ELSE b

\* Python: p in s
Contains(s, p) ==
    \E i \in 1..(Len(s) - Len(p) + 1) : SubSeq(s, i, i + Len(p) - 1) = p

\* Python: s[:n]
Prefix(s, n) == SubSeq(s, 1, Min(n, Len(s)))

---------------------------------------------------------------------------
(* categorize_button: pattern tables, click_api.py 255-293 *)

cookie_patterns ==
    <<"accept all", "accept cookies", "allow all", "allow cookies",
      "agree and continue", "accept and continue", "cookie", "consent",
      "i accept", "i agree", "@^4<= :?{ 4?>^>|%", "=5^? 4?>^>|%", "@^4<=">>

terms_patterns ==
    <<"accept terms", "agree terms", "accept conditions", "agree conditions",
      "i agree to terms", "accept privacy", "@^4<= :?{ 4?+$^,", "=5^? 4?+$^,",
      "terms", "privacy policy", "@^4<=6 :?{ 4?+$^,">>

navigation_patterns ==
    <<"next", "continue", "proceed", "forward", "4?74?|", "@745:6", "4?@745:6">>

\* defined by the code and never read by it
submit_patterns ==
    <<"submit", "send", "post", "save", "3$&4?", "!</", "7=#|@">>

search_patterns == <<"search", "find", "5!8", "4?5!8">>

cancel_patterns ==
    <<"cancel", "close", "dismiss", "skip", "not now", "later",
      "3?;40", "3;?4=", "794]?", "?4!=4}", "?|& 4?1[">>

choice_patterns == <<"yes", "no", "ok", "confirm", "[:@", "?4", "@^4<=", "72>|#">>

\* the for loop `for pattern in patterns: if pattern in combined_text: return`
\* returns at the first pattern of the list found in the text
MatchAny(patterns, combined_text) ==
    \E k \in 1..Len(patterns) : Contains(combined_text, patterns[k])

FirstMatch(patterns, combined_text) ==
    patterns[CHOOSE k \in 1..Len(patterns) :
                /\ Contains(combined_text, patterns[k])
                /\ \A j \in 1..(k - 1) : ~Contains(combined_text, patterns[j])]

\* the (category, priority, description) tuple
Triple(category, priority, description) ==
    [category |-> category, priority |-> priority, description |-> description]

\* mutant: `(type_attr == 'submit' or tag_name == 'button') and 'submit' in text`
SubmitTrigger_AndBindsLast(combined_text, type_attr, tag_name) ==
    (type_attr = "submit" \/ tag_name = "button") /\ Contains(combined_text, "submit")

\* line 305: type_attr == 'submit' or tag_name == 'button' and 'submit' in combined_text
\* (Python: `and` binds tighter than `or`)
SubmitTrigger(combined_text, type_attr, tag_name) ==
    type_attr = "submit" \/ (tag_name = "button" /\ Contains(combined_text, "submit"))

\* mutant: the default category at the priority of the last table row
GeneralReturn_Lowest(combined_text) ==
    Triple("general", 2, "General Button: " \o Prefix(combined_text, 50))

\* line 325
GeneralReturn(combined_text) ==
    Triple("general", 3, "General Button: " \o Prefix(combined_text, 50))

\* mutant: the cancel keywords are tested before the choice keywords and the
\* cookie keywords after them
categorize_button_CancelEarly(combined_text, type_attr, tag_name) ==
    IF MatchAny(terms_patterns, combined_text)
    THEN Triple("terms_agreement", 9,
                "Terms Agreement Button: " \o FirstMatch(terms_patterns, combined_text))
    ELSE IF SubmitTrigger(combined_text, type_attr, tag_name)
    THEN Triple("submit", 8, "Form Submit Button")
    ELSE IF MatchAny(navigation_patterns, combined_text)
    THEN Triple("navigation", 7,
                "Navigation Button: " \o FirstMatch(navigation_patterns, combined_text))
    ELSE IF MatchAny(search_patterns, combined_text)
    THEN Triple("search", 6,
                "Search Button: " \o FirstMatch(search_patterns, combined_text))
    ELSE IF MatchAny(cancel_patterns, combined_text)
    THEN Triple("cancel", 2,
                "Cancel/Close Button: " \o FirstMatch(cancel_patterns, combined_text))
    ELSE IF MatchAny(cookie_patterns, combined_text)
    THEN Triple("cookie_consent", 10,
                "Cookie Consent Button: " \o FirstMatch(cookie_patterns, combined_text))
    ELSE IF MatchAny(choice_patterns, combined_text)
    THEN Triple("choice", 5,
                "Choice Button: " \o FirstMatch(choice_patterns, combined_text))
    ELSE GeneralReturn(combined_text)

\* lines 295-325
categorize_button(combined_text, type_attr, tag_name) ==
    IF MatchAny(cookie_patterns, combined_text)
    THEN Triple("cookie_consent", 10,
                "Cookie Consent Button: " \o FirstMatch(cookie_patterns, combined_text))
    ELSE IF MatchAny(terms_patterns, combined_text)
    THEN Triple("terms_agreement", 9,
                "Terms Agreement Button: " \o FirstMatch(terms_patterns, combined_text))
    ELSE IF SubmitTrigger(combined_text, type_attr, tag_name)
    THEN Triple("submit", 8, "Form Submit Button")
    ELSE IF MatchAny(navigation_patterns, combined_text)
    THEN Triple("navigation", 7,
                "Navigation Button: " \o FirstMatch(navigation_patterns, combined_text))
    ELSE IF MatchAny(search_patterns, combined_text)
    THEN Triple("search", 6,
                "Search Button: " \o FirstMatch(search_patterns, combined_text))
    ELSE IF MatchAny(choice_patterns, combined_text)
    THEN Triple("choice", 5,
                "Choice Button: " \o FirstMatch(choice_patterns, combined_text))
    ELSE IF MatchAny(cancel_patterns, combined_text)
    THEN Triple("cancel", 2,
                "Cancel/Close Button: " \o FirstMatch(cancel_patterns, combined_text))
    ELSE GeneralReturn(combined_text)

---------------------------------------------------------------------------
(* Strings: str.lower, str.strip *)

Uppers == "ABCDEFGHIJKLMNOPQRSTUVWXYZ"
Lowers == "abcdefghijklmnopqrstuvwxyz"

LowerChar(c) ==
    IF \E k \in 1..Len(Uppers) : SubSeq(Uppers, k, k) = c
    THEN LET k == CHOOSE j \in 1..Len(Uppers) : SubSeq(Uppers, j, j) = c
         IN  SubSeq(Lowers, k, k)
    ELSE c

\* Python: s.lower()
RECURSIVE Lower(_)
Lower(s) ==
    IF Len(s) = 0 THEN ""
    ELSE LowerChar(SubSeq(s, 1, 1)) \o Lower(SubSeq(s, 2, Len(s)))

\* Python: s.strip() (the blank is the only white space of the model)
RECURSIVE Strip(_)
Strip(s) ==
    IF Len(s) = 0 THEN ""
    ELSE IF SubSeq(s, 1, 1) = " " THEN Strip(SubSeq(s, 2, Len(s)))
    ELSE IF SubSeq(s, Len(s), Len(s)) = " " THEN Strip(SubSeq(s, 1, Len(s) - 1))
    ELSE s

---------------------------------------------------------------------------
(* The document: the elements the browser capability returns *)

\* an <input>/<textarea> in the parent of a button.  type "" is an absent
\* type attribute; fault is TRUE when reading the input raises
Inp(type, value, visible, enabled, fault) ==
    [type |-> type, placeholder |-> "", value |-> value, visible |-> visible,
     enabled |-> enabled, fault |-> fault]

\* an element: attrs maps the attributes the element bears to their values;
\* fault is "none", "detached" (every access raises) or "late" (the element
\* detaches after find_all_buttons has hashed it)
El(tag_name, inner_text, attrs, visible, enabled, fault, parent_inputs) ==
    [tag_name |-> tag_name, inner_text |-> inner_text, attrs |-> attrs,
     visible |-> visible, enabled |-> enabled, fault |-> fault,
     parent_inputs |-> parent_inputs]

NoAttrs == [a \in {} |-> ""]

ElementPool ==
    << \* 1  <button class="btn accept-cookies">Accept All Cookies</button>
       El("BUTTON", "Accept All Cookies", [class |-> "btn accept-cookies"],
          TRUE, TRUE, "none", <<>>),
       \* 2  <button type="submit">Send</button>, no input beside it
       El("BUTTON", "Send", [type |-> "submit"], TRUE, TRUE, "none", <<>>),
       \* 3  <button>Next</button> beside an empty text input
       El("BUTTON", " Next ", NoAttrs, TRUE, TRUE, "none",
          << Inp("", "", TRUE, TRUE, FALSE) >>),
       \* 4  <a role="button" class="find">Search</a> beside a hidden input
       \*    and a filled search input
       El("A", "Search", [role |-> "button", class |-> "find"], TRUE, TRUE, "none",
          << Inp("hidden", "tok", FALSE, TRUE, FALSE),
             Inp("search", "tla", TRUE, TRUE, FALSE) >>),
       \* 5  <div class="btn">OK</div>
       El("DIV", "OK", [class |-> "btn"], TRUE, TRUE, "none", <<>>),
       \* 6  <span role="button">Close</span>
       El("SPAN", "Close", [role |-> "button"], TRUE, TRUE, "none", <<>>),
       \* 7  <button id="more">Click here</button>
       El("BUTTON", "Click here", [id |-> "more"], TRUE, TRUE, "none", <<>>),
       \* 8  <div class="accept" onclick="run">I Agree</div>
       El("DIV", "I Agree", [class |-> "accept", onclick |-> "run"],
          TRUE, TRUE, "none", <<>>),
       \* 9  <button class="cancel" disabled>Cancel</button>
       El("BUTTON", "Cancel", [class |-> "cancel"], TRUE, FALSE, "none", <<>>),
       \* 10 <input type="submit" class="btn"> that has left the document
       El("INPUT", "", [type |-> "submit", class |-> "btn"], TRUE, TRUE,
          "detached", <<>>),
       \* 11 <button id="less">Click here</button>: tag, class and text of 7
       El("BUTTON", "Click here", [id |-> "less"], TRUE, TRUE, "none", <<>>),
       \* 12 <div class="btn">Later</div> that leaves the document while it
       \*    is analysed
       El("DIV", "Later", [class |-> "btn"], TRUE, TRUE, "late", <<>>),
       \* 13 <button class="close" hidden>Close</button>
       El("BUTTON", "Close", [class |-> "close"], FALSE, TRUE, "none", <<>>) >>

\* element.get_attribute(name): the value, or None
HasAttr(e, name) == name \in DOMAIN e.attrs

\* element.get_attribute(name) or ""
AttrOr(e, name) == IF HasAttr(e, name) THEN e.attrs[name] ELSE ""

\* str(element.get_attribute(name)) inside an f-string
AttrStr(e, name) == IF HasAttr(e, name) THEN e.attrs[name] ELSE "None"

---------------------------------------------------------------------------
(* find_all_buttons: the selectors, click_api.py 159-191 *)

\* a selector: tag "" is any tag; attr "" is no attribute test; val "*" is
\* the presence test [attr]; cls "" is no class test
Sel(tag, attr, val, cls) == [tag |-> tag, attr |-> attr, val |-> val, cls |-> cls]

button_selectors ==
    << Sel("button", "", "", ""),
       Sel("input", "type", "button", ""),
       Sel("input", "type", "submit", ""),
       Sel("input", "type", "reset", ""),
       Sel("a", "role", "button", ""),
       Sel("a", "onclick", "*", ""),
       Sel("div", "role", "button", ""),
       Sel("span", "role", "button", ""),
       Sel("", "onclick", "*", ""),
       Sel("", "", "", "btn"),
       Sel("", "", "", "button"),
       Sel("", "", "", "click"),
       Sel("", "", "", "submit"),
       Sel("", "", "", "send"),
       Sel("", "", "", "next"),
       Sel("", "", "", "continue"),
       Sel("", "", "", "accept"),
       Sel("", "", "", "agree"),
       Sel("", "", "", "confirm"),
       Sel("", "", "", "ok"),
       Sel("", "", "", "yes"),
       Sel("", "", "", "no"),
       Sel("", "", "", "cancel"),
       Sel("", "", "", "close"),
       Sel("", "", "", "dismiss"),
       Sel("", "", "", "skip") >>

\* the browser's selector matching: tag, attribute and class-token tests
SelMatches(sel, e) ==
    /\ sel.tag = "" \/ sel.tag = Lower(e.tag_name)
    /\ \/ sel.attr = ""
       \/ /\ HasAttr(e, sel.attr)
          /\ sel.val = "*" \/ e.attrs[sel.attr] = sel.val
    /\ \/ sel.cls = ""
       \/ /\ HasAttr(e, "class")
          /\ Contains(" " \o e.attrs["class"] \o " ", " " \o sel.cls \o " ")

---------------------------------------------------------------------------
(* find_associated_input, click_api.py 327-347 *)

NoInput ==
    [present |-> FALSE, element |-> 0, type |-> "", placeholder |-> "", value |-> ""]

TextLikeTypes == {"text", "search", "email", "url"}

\* mutant: an absent type attribute is not taken for text
InpType_NoDefault(inp) == inp.type

\* inp.get_attribute('type') or 'text'
InpType(inp) == IF inp.type = "" THEN "text" ELSE inp.type

\* the for loop over the parent's inputs from position k on: the first
\* visible, enabled input of a text-like type; an access that raises ends
\* the search with None
RECURSIVE AssociatedFrom(_, _)
AssociatedFrom(inputs, k) ==
    IF k > Len(inputs) THEN NoInput
    ELSE IF inputs[k].fault THEN NoInput
    ELSE IF inputs[k].visible /\ inputs[k].enabled
            /\ InpType(inputs[k]) \in TextLikeTypes
    THEN [present |-> TRUE, element |-> k, type |-> InpType(inputs[k]),
          placeholder |-> inputs[k].placeholder, value |-> inputs[k].value]
    ELSE AssociatedFrom(inputs, k + 1)

find_associated_input(e) == AssociatedFrom(e.parent_inputs, 1)

---------------------------------------------------------------------------
(* analyze_button, click_api.py 213-250 *)

\* line 227
CombinedText(e) ==
    Lower(Lower(Strip(e.inner_text)) \o " " \o AttrOr(e, "class") \o " "
          \o AttrOr(e, "id") \o " " \o AttrOr(e, "title") \o " "
          \o AttrOr(e, "aria-label") \o " " \o AttrOr(e, "onclick"))

\* the Button Record of the element at position pos of the document
analyze_button(e, pos) ==
    LET t == categorize_button(CombinedText(e), AttrOr(e, "type"), Lower(e.tag_name))
    IN  [element |-> pos,
         text |-> Lower(Strip(e.inner_text)),
         category |-> t.category,
         priority |-> t.priority,
         description |-> t.description,
         combined_text |-> CombinedText(e),
         associated_input |-> find_associated_input(e),
         tag_name |-> Lower(e.tag_name),
         type |-> AttrOr(e, "type"),
         clickable |-> TRUE]

\* the Button Record of every element of the pool (position filled in later)
Analysis == [p \in 1..Len(ElementPool) |-> analyze_button(ElementPool[p], 0)]

---------------------------------------------------------------------------
(* find_all_buttons, click_api.py 193-211 *)

\* mutant: the id attribute is part of the hash
ElementHash_WithId(e) ==
    e.tag_name \o "-" \o AttrStr(e, "class") \o "-" \o e.inner_text
        \o "-" \o AttrStr(e, "id")

\* line 201
ElementHash(e) ==
    e.tag_name \o "-" \o AttrStr(e, "class") \o "-" \o e.inner_text

\* the positions of the pool each selector matches, and the hash of each
\* element of the pool
SelectorHits ==
    [s \in 1..Len(button_selectors) |->
        { p \in 1..Len(ElementPool) : SelMatches(button_selectors[s], ElementPool[p]) }]

Hashes == [p \in 1..Len(ElementPool) |-> ElementHash(ElementPool[p])]

\* the inner for loop over the elements selector number sel matched, from
\* position k of the document on.  st = [found, buttons, raised]: raised is set when an
\* access raises, which leaves the loop (the except of line 207 is outside
\* it).  An element that detaches after it was hashed makes analyze_button
\* return None
RECURSIVE ScanElements(_, _, _, _)
ScanElements(doc, sel, k, st) ==
    IF st.raised \/ k > Len(doc) THEN st
    ELSE LET e == ElementPool[doc[k]] IN
         IF doc[k] \notin SelectorHits[sel] THEN ScanElements(doc, sel, k + 1, st)
         ELSE IF e.fault = "detached" THEN [st EXCEPT !.raised = TRUE]
         ELSE IF ~(e.visible /\ e.enabled) THEN ScanElements(doc, sel, k + 1, st)
         ELSE IF Hashes[doc[k]] \in st.found THEN ScanElements(doc, sel, k + 1, st)
         ELSE ScanElements(doc, sel, k + 1,
                [st EXCEPT
                   !.found = @ \cup {Hashes[doc[k]]},
                   !.buttons = IF e.fault = "late" THEN @
                               ELSE Append(@, [Analysis[doc[k]] EXCEPT !.element = k])])

\* the outer for loop over the selectors: the state after the first s
\* selectors.  A selector in failing is one whose query_selector_all raises;
\* errors counts the passes through the except of line 207
RECURSIVE ScanSelectors(_, _, _)
ScanSelectors(doc, failing, s) ==
    IF s = 0 THEN [found |-> {}, buttons |-> <<>>, raised |-> FALSE, errors |-> 0]
    ELSE LET st == ScanSelectors(doc, failing, s - 1)
             after == IF s \in failing THEN [st EXCEPT !.raised = TRUE]
                      ELSE ScanElements(doc, s, 1, st)
         IN  [after EXCEPT !.raised = FALSE,
                           !.errors = IF after.raised THEN @ + 1 ELSE @]

find_all_buttons(doc, failing) ==
    ScanSelectors(doc, failing, Len(button_selectors)).buttons

\* the number of exceptions find_all_buttons caught
ScanErrors(doc, failing) ==
    ScanSelectors(doc, failing, Len(button_selectors)).errors

---------------------------------------------------------------------------
(* wait_for_typing_completion, click_api.py 354-406 *)

\* default of the parameter max_wait
max_wait_default == 30

\* `if stable_count >= 3`
stable_needed == 3

\* `time.sleep(5)` of the empty-field wait, in seconds
empty_wait_seconds == 5

\* what input_element.input_value() gives at one call: a value, or an
\* exception
Rd(v) == [ok |-> TRUE, v |-> v]
RdExc == [ok |-> FALSE, v |-> ""]

\* the values the successive calls of input_value() give: those of prefix,
\* then those of cycle over and over
Stream(prefix, cycle) == [prefix |-> prefix, cycle |-> cycle]

ReadAt(stream, n) ==
    IF n <= Len(stream.prefix) THEN stream.prefix[n]
    ELSE stream.cycle[((n - Len(stream.prefix) - 1) % Len(stream.cycle)) + 1]

\* mutant: only the empty text is taken for blank
IsBlank_EmptyOnly(s) == s = ""

\* `not s.strip()`
IsBlank(s) == \A k \in 1..Len(s) : SubSeq(s, k, k) = " "

\* the locals of wait_for_typing_completion at its entry; reads counts the
\* calls of input_value(), slept the seconds of time.sleep, raised tells
\* that a call of input_value() raised
GuardStart ==
    [pc |-> "start", reads |-> 0, initial_value |-> "", last_value |-> "",
     stable_count |-> 0, wait_cycles |-> 0, slept |-> 0, raised |-> FALSE,
     ret |-> FALSE, path |-> ""]

\* mutant: exhausting the cycles reports a failure
TimeoutReturn_Fails == FALSE

\* lines 405-406: the value returned after the while loop
TimeoutReturn == TRUE

\* mutant: a changed value does not reset the counter
NextStableCount_NoReset(stable_count, current_value, last_value) ==
    stable_count + 1

\* lines 389-397: stable_count after a poll that read current_value
NextStableCount(stable_count, current_value, last_value) ==
    IF current_value = last_value THEN stable_count + 1 ELSE 0

\* mutant: the loop makes one pass more
LoopContinues_OneMore(wait_cycles, max_wait) == wait_cycles <= max_wait

\* line 382: `while wait_cycles < max_wait`
LoopContinues(wait_cycles, max_wait) == wait_cycles < max_wait

GuardReturn(g, ret, path) == [g EXCEPT !.pc = "returned", !.ret = ret, !.path = path]

\* one step of the guard: the first read (362-368), the wait on an empty
\* field (368-377), or one pass of the while loop (382-403)
GuardStep(g, stream, max_wait) ==
    LET r == ReadAt(stream, g.reads + 1) IN
    CASE g.pc = "start" ->
            LET v == IF r.ok THEN r.v ELSE "" IN
            [g EXCEPT !.reads = @ + 1, !.initial_value = v, !.raised = ~r.ok,
                      !.pc = IF IsBlank(v) THEN "empty_wait" ELSE "monitor",
                      !.last_value = v]
      [] g.pc = "empty_wait" ->
            LET h == [g EXCEPT !.reads = @ + 1, !.slept = @ + empty_wait_seconds,
                                    !.raised = @ \/ ~r.ok] IN
            IF ~r.ok THEN GuardReturn(h, TRUE, "wait_read_raised")
            ELSE IF IsBlank(r.v) THEN GuardReturn(h, TRUE, "no_typing")
            ELSE [h EXCEPT !.pc = "monitor", !.last_value = g.initial_value]
      [] g.pc = "monitor" ->
            IF ~LoopContinues(g.wait_cycles, max_wait)
            THEN GuardReturn(g, TimeoutReturn, "max_wait")
            ELSE LET h == [g EXCEPT !.reads = @ + 1, !.slept = @ + 1,
                                    !.wait_cycles = @ + 1, !.raised = @ \/ ~r.ok] IN
                 IF ~r.ok THEN GuardReturn(h, TimeoutReturn, "poll_read_raised")
                 ELSE LET count == NextStableCount(g.stable_count, r.v, g.last_value) IN
                      IF r.v = g.last_value /\ count >= stable_needed
                      THEN GuardReturn([h EXCEPT !.stable_count = count], TRUE, "stable")
                      ELSE [h EXCEPT !.stable_count = count, !.last_value = r.v]
      [] OTHER -> g

RECURSIVE RunGuard(_, _, _)
RunGuard(g, stream, max_wait) ==
    IF g.pc = "returned" THEN g
    ELSE RunGuard(GuardStep(g, stream, max_wait), stream, max_wait)

\* the locals of the guard at its return
wait_for_typing_completion(stream, max_wait) ==
    RunGuard(GuardStart, stream, max_wait)

\* lines 349-352
is_typing_in_progress(now, last) == (now - last) < 3

---------------------------------------------------------------------------
(* smart_button_click, click_api.py 408-462 *)

GuardedCategories == {"submit", "search", "navigation"}

\* str(e) of the exception button.click() raises
ClickError == "element is not attached"

\* lines 418-425: the guard is entered
GuardEntered(button_info, now, last) ==
    /\ button_info.category \in GuardedCategories
    /\ button_info.associated_input.present
    /\ \/ IsBlank(button_info.associated_input.value)
       \/ is_typing_in_progress(now, last)

\* mutant: the exception of click() is swallowed and the click reported done
ClickFailureResult_Swallowed(button_info) ==
    [success |-> TRUE,
     message |-> "Successfully clicked " \o button_info.category \o " button",
     category |-> button_info.category,
     button_text |-> button_info.text]

\* lines 456-462: the record returned when the body raised
ClickFailureResult(button_info) ==
    [success |-> FALSE,
     message |-> "Error clicking button: " \o ClickError,
     category |-> button_info.category]

\* env = [stream, click_ok, now]: what the browser and the clock do during
\* the call.  Returns the result record, whether click() was called, and
\* the guard's run
smart_button_click(button_info, env, last) ==
    LET entered == GuardEntered(button_info, env.now, last)
        g == IF entered
             THEN wait_for_typing_completion(env.stream, max_wait_default)
             ELSE GuardStart
    IN  IF entered /\ ~g.ret
        THEN [result |-> [success |-> FALSE,
                          message |-> "Timeout waiting for typing completion",
                          category |-> button_info.category],
              clicked |-> FALSE, entered |-> entered, guard |-> g]
        ELSE IF env.click_ok
        THEN [result |-> [success |-> TRUE,
                          message |-> "Successfully clicked "
                                      \o button_info.category \o " button",
                          category |-> button_info.category,
                          button_text |-> button_info.text],
              clicked |-> TRUE, entered |-> entered, guard |-> g]
        ELSE [result |-> ClickFailureResult(button_info),
              clicked |-> TRUE, entered |-> entered, guard |-> g]

---------------------------------------------------------------------------
(* list.sort(key=lambda x: x['priority'], reverse=True), lines 486 and 649 *)

\* mutant: a new record goes before the records of its own priority
InsertByPriority_BeforeEqual(sorted, b) ==
    LET before == { k \in 1..Len(sorted) : sorted[k].priority > b.priority }
        n == Cardinality(before)
    IN  SubSeq(sorted, 1, n) \o <<b>> \o SubSeq(sorted, n + 1, Len(sorted))

\* mutant: ascending order (reverse=True left out)
InsertByPriority_Ascending(sorted, b) ==
    LET before == { k \in 1..Len(sorted) : sorted[k].priority <= b.priority }
        n == Cardinality(before)
    IN  SubSeq(sorted, 1, n) \o <<b>> \o SubSeq(sorted, n + 1, Len(sorted))

\* b is put behind the records of sorted whose priority is not lower
\* (sorted is in descending order): the sort is stable
InsertByPriority(sorted, b) ==
    LET before == { k \in 1..Len(sorted) : sorted[k].priority >= b.priority }
        n == Cardinality(before)
    IN  SubSeq(sorted, 1, n) \o <<b>> \o SubSeq(sorted, n + 1, Len(sorted))

RECURSIVE SortFrom(_, _, _)
SortFrom(seq, k, sorted) ==
    IF k > Len(seq) THEN sorted
    ELSE SortFrom(seq, k + 1, InsertByPriority(sorted, seq[k]))

SortByPriority(seq) == SortFrom(seq, 1, <<>>)

---------------------------------------------------------------------------
(* Specification of categorize_button as a function of its arguments *)

\* words the combined texts are made of: keywords of every table row, words
\* that hold keywords of two rows, and words that hold none
Vocab ==
    <<"accept all", "accept-cookies", "@^4<=", "terms", "submit", "send",
      "next", "search", "ok", "cancel", "later", "click", "?4!=4}">>

RECURSIVE Join(_)
Join(ws) ==
    IF ws = <<>> THEN ""
    ELSE IF Len(ws) = 1 THEN Vocab[ws[1]]
    ELSE Vocab[ws[1]] \o " " \o Join(Tail(ws))

CombinedTexts ==
    { Join(ws) : ws \in UNION { [1..n -> 1..Len(Vocab)] : n \in 0..MaxWords } }

TypeAttrs == {"", "submit", "button"}
TagNames == {"button", "input", "a", "div"}

NoTriple == Triple("", 0, "")

\* the `categories` of a request body when absent (None)
NoCategories == [kind |-> "none", list |-> <<>>]

\* no response yet
NoResponse == [success |-> FALSE, message |-> ""]

\* the service is idle in this specification
ServiceIdle ==
    /\ browser = FALSE
    /\ page = FALSE
    /\ playwright = FALSE
    /\ last_typing_time = 0
    /\ document = <<>>
    /\ pc = "idle"
    /\ req = [handler |-> "", url |-> "", categories |-> NoCategories]
    /\ buttons = <<>>
    /\ scanned = <<>>
    /\ idx = 0
    /\ results = <<>>
    /\ processed_count = 0
    /\ clicks = <<>>
    /\ guards = <<>>
    /\ faults = {}
    /\ response = NoResponse

serviceVars ==
    <<playwright, browser, page, last_typing_time, document, pc, req, buttons,
      scanned, idx, results, processed_count, clicks, guards, faults, response>>

CatInit ==
    /\ cb_pc = "call"
    /\ cb_in \in [combined_text : CombinedTexts, type_attr : TypeAttrs,
                  tag_name : TagNames]
    /\ cb_out = NoTriple
    /\ ServiceIdle
    /\ AuxIdle("")

Categorize ==
    /\ cb_pc = "call"
    /\ cb_pc' = "return"
    /\ cb_out' = categorize_button(cb_in.combined_text, cb_in.type_attr, cb_in.tag_name)
    /\ UNCHANGED <<cb_in, serviceVars>>
    /\ AuxUnchanged("")

CatNext == Categorize

SpecCat == CatInit /\ [][CatNext]_vars

---------------------------------------------------------------------------
(* categorize_button on the keywords of its own tables *)

\* the keyword lists by the category they are listed for
KeywordTables ==
    [cookie_consent |-> cookie_patterns, terms_agreement |-> terms_patterns,
     navigation |-> navigation_patterns, search |-> search_patterns,
     choice |-> choice_patterns, cancel |-> cancel_patterns]

Keywords ==
    UNION { { KeywordTables[c][k] : k \in 1..Len(KeywordTables[c]) } :
              c \in DOMAIN KeywordTables }

\* a combined text that is one keyword, on an element that is no submit
\* input and no <button>
KwInit ==
    /\ cb_pc = "call"
    /\ cb_in \in [combined_text : Keywords, type_attr : {"", "button"},
                  tag_name : {"a", "div", "input"}]
    /\ cb_out = NoTriple
    /\ ServiceIdle
    /\ AuxIdle("")

SpecKw == KwInit /\ [][CatNext]_vars

---------------------------------------------------------------------------
(* The service: the single SmartButtonAutomation instance and its handlers *)

\* the documents page.goto can load: up to MaxPage elements of the pool
PageElements == {1, 2, 3, 6, 7, 8}
Docs == UNION { [1..n -> PageElements] : n \in 0..MaxPage }

\* the selectors whose query_selector_all raises during one scan: none,
\* 'button', or '[onclick]'
FailingSets == { {}, {1}, {9} }

\* what a scan of each document finds: find_all_buttons is a function of
\* the document and of the queries that raise
ScanOf ==
    [d \in Docs |->
        [failing \in FailingSets |-> ScanSelectors(d, failing, Len(button_selectors))]]

\* the value streams of an associated input while the guard watches it
Streams ==
    { Stream(<<>>, <<Rd("")>>),
      Stream(<<Rd(""), Rd("a"), Rd("ab")>>, <<Rd("ab")>>),
      Stream(<<Rd(" ")>>, <<Rd("a"), Rd("ab")>>),
      Stream(<<Rd(""), Rd("a")>>, <<RdExc>>),
      Stream(<<RdExc>>, <<RdExc>>) }

\* the stream of a call that never reads the input
NoStream == Stream(<<>>, <<RdExc>>)

\* the readings of time.time() (seconds since the epoch)
NowValues == MinNow..(MinNow + 1)

\* the `categories` of a request body: absent (None), a list, or a number
CategoryLists ==
    { <<>>, <<"cookie_consent", "cancel">>, <<"submit", "general", "choice">> }
CategoryInputs ==
    {NoCategories, [kind |-> "number", list |-> <<>>]}
        \cup { [kind |-> "list", list |-> l] : l \in CategoryLists }

\* the `url` of a request body: absent, or a URL
Urls == {"", "http://example.test/form"}

\* `if categories_filter:`
Truthy(categories) ==
    \/ categories.kind = "number"
    \/ categories.kind = "list" /\ categories.list # <<>>

Range(seq) == { seq[k] : k \in 1..Len(seq) }

\* line 482: [b for b in buttons if b['category'] in categories_filter]
FilterButtons(bs, categories) ==
    SelectSeq(bs, LAMBDA b : b.category \in Range(categories.list))


\* locals of a handler and the history of a request, before a request
Fresh ==
    /\ buttons' = <<>>
    /\ scanned' = <<>>
    /\ idx' = 0
    /\ results' = <<>>
    /\ processed_count' = 0
    /\ clicks' = <<>>
    /\ guards' = <<>>
    /\ faults' = {}

Init ==
    /\ cb_pc = "unused"
    /\ cb_in = [combined_text |-> "", type_attr |-> "", tag_name |-> ""]
    /\ cb_out = NoTriple
    /\ browser = FALSE
    /\ page = FALSE
    /\ playwright = FALSE
    /\ last_typing_time = 0
    /\ document = <<>>
    /\ pc = "idle"
    /\ req = [handler |-> "", url |-> "", categories |-> NoCategories]
    /\ buttons = <<>>
    /\ scanned = <<>>
    /\ idx = 0
    /\ results = <<>>
    /\ processed_count = 0
    /\ clicks = <<>>
    /\ guards = <<>>
    /\ faults = {}
    /\ response = NoResponse
    /\ AuxIdle("")

Idle == pc = "idle"

\* what each endpoint tried by connect_to_existing_browser does, in the
\* order ports 9222, 9223, 9224 (CDP) and 6000 (Firefox): "refused" (the
\* connect raises), "no_page" (the connect succeeds and getting a page
\* raises) or "ok"
ConnectOutcomes ==
    { <<"ok", "refused", "refused", "refused">>,
      <<"refused", "refused", "refused", "ok">>,
      <<"refused", "refused", "refused", "refused">>,
      <<"no_page", "refused", "refused", "refused">>,
      <<"refused", "no_page", "ok", "refused">> }

\* lines 54-96: the state [browser, page, connected] after the endpoints
\* from number k on have been tried
RECURSIVE TryEndpoints(_, _, _)
TryEndpoints(outs, k, st) ==
    IF st.connected \/ k > Len(outs) THEN st
    ELSE TryEndpoints(outs, k + 1,
            CASE outs[k] = "ok" ->
                    [browser |-> TRUE, page |-> TRUE, connected |-> TRUE]
              [] outs[k] = "no_page" -> [st EXCEPT !.browser = TRUE]
              [] OTHER -> st)

\* close_browser_connection, lines 124-141
CloseConnection ==
    [browser |-> FALSE, page |-> IF browser THEN FALSE ELSE page,
     playwright |-> FALSE]

\* start_session, lines 584-597, with connect_to_existing_browser, 46-102.
\* driver_ok is FALSE when sync_playwright().start() raises
StartSessionWith(driver_ok, outs) ==
    /\  LET closed == IF browser THEN CloseConnection
                      ELSE [browser |-> browser, page |-> page,
                            playwright |-> playwright]
            st == IF driver_ok
                  THEN TryEndpoints(outs, 1,
                          [browser |-> closed.browser, page |-> closed.page,
                           connected |-> FALSE])
                  ELSE [browser |-> closed.browser, page |-> closed.page,
                        connected |-> FALSE]
        IN  /\ browser' = st.browser
            /\ page' = st.page
            /\ playwright' = (driver_ok \/ closed.playwright)
            /\ response' =
                 IF st.connected
                 THEN [success |-> TRUE, message |-> "Session started successfully"]
                 ELSE [success |-> FALSE,
                       message |-> "Failed to connect to browser. Please start a browser with debug mode first."]
    /\ pc' = "done"
    /\ req' = [handler |-> "start_session", url |-> "", categories |-> NoCategories]
    /\ document' = <<>>
    /\ Fresh
    /\ UNCHANGED <<catVars, last_typing_time>>

StartSession ==
    /\ Idle
    /\ \E driver_ok \in BOOLEAN, outs \in ConnectOutcomes :
         StartSessionWith(driver_ok, outs)
    /\ UNCHANGED auxVars

\* close_session, lines 701-708
CloseSessionBody ==
    /\ browser' = CloseConnection.browser
    /\ page' = CloseConnection.page
    /\ playwright' = CloseConnection.playwright
    /\ response' = [success |-> TRUE, message |-> "Session closed successfully"]
    /\ pc' = "done"
    /\ req' = [handler |-> "close_session", url |-> "", categories |-> NoCategories]
    /\ document' = <<>>
    /\ Fresh
    /\ UNCHANGED <<catVars, last_typing_time>>

CloseSession ==
    /\ Idle
    /\ CloseSessionBody
    /\ UNCHANGED auxVars

\* a handler returns before it has touched the page
Reject(handler, url, categories, message) ==
    /\ response' = [success |-> FALSE, message |-> message]
    /\ pc' = "done"
    /\ req' = [handler |-> handler, url |-> url, categories |-> categories]
    /\ Fresh
    /\ UNCHANGED <<auxVars, catVars, browser, page, playwright, last_typing_time, document>>

\* process_buttons, lines 599-617, and process_all_buttons up to the click
\* loop, lines 464-489.  nav_ok: page.goto returns; d: the document it
\* loads; failing: the selectors whose query raises
ProcessButtons ==
    /\ Idle
    /\ \E url \in Urls, categories \in CategoryInputs :
         IF url = ""
         THEN Reject("process_buttons", url, categories, "Please provide page URL")
         ELSE IF ~browser
         THEN Reject("process_buttons", url, categories, "Please start session first")
         ELSE
           /\ req' = [handler |-> "process_buttons", url |-> url,
                      categories |-> categories]
           /\ idx' = 1
           /\ results' = <<>>
           /\ processed_count' = 0
           /\ clicks' = <<>>
           /\ guards' = <<>>
           /\ UNCHANGED <<auxVars, catVars, browser, page, playwright, last_typing_time>>
           /\ \E nav_ok \in BOOLEAN :
                IF ~(nav_ok /\ page)
                THEN /\ response' = [success |-> FALSE, message |-> "Failed to load page"]
                     /\ pc' = "done"
                     /\ faults' = {"navigation"}
                     /\ UNCHANGED <<document, scanned, buttons>>
                ELSE \E d \in Docs, failing \in FailingSets :
                  LET scan == ScanOf[d][failing]
                      found == scan.buttons
                      type_error == categories.kind = "number"
                      kept == IF Truthy(categories) /\ ~type_error
                              THEN FilterButtons(found, categories) ELSE found
                  IN
                  /\ document' = d
                  /\ scanned' = found
                  /\ faults' = (IF scan.errors > 0 THEN {"query"} ELSE {})
                                 \cup (IF found # <<>> /\ type_error
                                       THEN {"filter"} ELSE {})
                  /\ IF found = <<>>
                     THEN /\ response' = [success |-> FALSE,
                                          message |-> "No buttons found on this page"]
                          /\ pc' = "done"
                          /\ buttons' = <<>>
                     ELSE IF type_error
                     THEN /\ response' =
                               [success |-> FALSE,
                                message |-> "Error: argument of type 'int' is not iterable"]
                          /\ pc' = "done"
                          /\ buttons' = <<>>
                     ELSE /\ response' = NoResponse
                          /\ pc' = IF kept = <<>> THEN "return" ELSE "loop"
                          /\ buttons' = SortByPriority(kept)

\* mutant: the loop is left only when the click succeeded
BreakAfter_OnlyOnSuccess(button_info, result) ==
    result.success /\ button_info.category \in {"navigation", "submit"}

\* mutant: the loop is left behind a navigation button only
BreakAfter_NavigationOnly(button_info, result) ==
    button_info.category = "navigation"

\* lines 505-508: the loop is left behind this button
BreakAfter(button_info, result) ==
    button_info.category \in {"navigation", "submit"}

\* mutant: every attempt is counted
CountProcessed_Always(count, result) == count + 1

\* lines 499-500
CountProcessed(count, result) == IF result.success THEN count + 1 ELSE count

\* one pass of the for loop of process_all_buttons, lines 491-508: stream is
\* what the associated input shows while the guard watches it, click_ok is
\* FALSE when button.click() raises, now is the reading of the clock
ClickStep ==
    /\ pc = "loop"
    /\ \E click_ok \in BOOLEAN, now \in NowValues :
        \E stream \in IF GuardEntered(buttons[idx], now, last_typing_time)
                      THEN Streams ELSE {NoStream} :
         LET b == buttons[idx]
             r == smart_button_click(b, [stream |-> stream, click_ok |-> click_ok,
                                         now |-> now], last_typing_time)
             break == BreakAfter(b, r.result)
         IN  /\ results' = Append(results, r.result)
             /\ processed_count' = CountProcessed(processed_count, r.result)
             /\ clicks' = IF r.clicked
                          THEN Append(clicks, [element |-> b.element,
                                               raised |-> ~click_ok])
                          ELSE clicks
             /\ guards' = IF r.entered
                          THEN Append(guards, [element |-> b.element,
                                               ret |-> r.guard.ret,
                                               path |-> r.guard.path,
                                               raised |-> r.guard.raised])
                          ELSE guards
             /\ faults' = faults
                            \cup (IF r.clicked /\ ~click_ok THEN {"click"} ELSE {})
                            \cup (IF r.entered /\ r.guard.raised THEN {"read"} ELSE {})
             /\ idx' = IF break THEN idx ELSE idx + 1
             /\ pc' = IF break \/ idx + 1 > Len(buttons) THEN "return" ELSE "loop"
    /\ UNCHANGED <<auxVars, catVars, browser, page, playwright, last_typing_time, document,
                   req, buttons, scanned, response>>

\* the return of process_all_buttons, lines 510-516
ProcessReturn ==
    /\ pc = "return"
    /\ response' = [success |-> TRUE,
                    message |-> "Processed " \o ToString(processed_count)
                                \o " buttons successfully",
                    total_buttons |-> Len(buttons),
                    processed_buttons |-> processed_count,
                    results |-> results]
    /\ pc' = "done"
    /\ UNCHANGED <<auxVars, catVars, browser, page, playwright, last_typing_time, document, req,
                   buttons, scanned, idx, results, processed_count, clicks,
                   guards, faults>>

\* lines 637-646
ButtonInfo(b) ==
    [category |-> b.category, priority |-> b.priority,
     description |-> b.description, text |-> b.text, tag_name |-> b.tag_name,
     has_associated_input |-> b.associated_input.present]

\* scan_buttons, lines 619-658
ScanButtons ==
    /\ Idle
    /\ \E url \in Urls :
         IF url = ""
         THEN Reject("scan_buttons", url, NoCategories, "Please provide page URL")
         ELSE IF ~browser
         THEN Reject("scan_buttons", url, NoCategories, "Please start session first")
         ELSE
           /\ req' = [handler |-> "scan_buttons", url |-> url,
                      categories |-> NoCategories]
           /\ pc' = "done"
           /\ idx' = 0
           /\ results' = <<>>
           /\ processed_count' = 0
           /\ clicks' = <<>>
           /\ guards' = <<>>
           /\ UNCHANGED <<auxVars, catVars, browser, page, playwright, last_typing_time>>
           /\ \E nav_ok \in BOOLEAN :
                IF ~(nav_ok /\ page)
                THEN /\ response' = [success |-> FALSE, message |-> "Failed to load page"]
                     /\ faults' = {"navigation"}
                     /\ UNCHANGED <<document, scanned, buttons>>
                ELSE \E d \in Docs, failing \in FailingSets :
                  LET scan == ScanOf[d][failing]
                      sorted == SortByPriority(scan.buttons)
                  IN
                  /\ document' = d
                  /\ scanned' = scan.buttons
                  /\ buttons' = sorted
                  /\ faults' = IF scan.errors > 0 THEN {"query"} ELSE {}
                  /\ response' =
                       [success |-> TRUE, buttons_count |-> Len(sorted),
                        buttons |-> [k \in 1..Len(sorted) |-> ButtonInfo(sorted[k])]]

\* the handler's response has been sent (return jsonify(...)); its locals
\* are gone
Deliver ==
    /\ pc = "done"
    /\ pc' = "idle"
    /\ response' = NoResponse
    /\ req' = [handler |-> "", url |-> "", categories |-> NoCategories]
    /\ document' = <<>>
    /\ Fresh
    /\ UNCHANGED <<auxVars, catVars, browser, page, playwright, last_typing_time>>

Next ==
    \/ Deliver
    \/ StartSession
    \/ CloseSession
    \/ ProcessButtons
    \/ ClickStep
    \/ ProcessReturn
    \/ ScanButtons

Spec == Init /\ [][Next]_vars

---------------------------------------------------------------------------
(* The request threads of the Flask server, click_api.py 581-755: app.run  *)
(* serves each request on a thread of its own (the development server is  *)
(* threaded), every handler works on the one smart_automation object, and *)
(* no handler takes a lock.  A step is one operation on the shared        *)
(* browser or page.                                                       *)

\* requests served at the same time
NumThreads == 2

\* buttons a request of this specification clicks at most
MaxThreadClicks == 2

ThreadIds == 1..NumThreads

ThreadUrls == {"http://example.test/form", "http://example.test/other"}

ThreadHandlers ==
    {"start_session", "process_buttons", "scan_buttons", "close_session"}

\* a thread that serves no request
IdleThread ==
    [pc |-> "idle", handler |-> "", url |-> "", left |-> 0, seen_url |-> "",
     ops |-> 0, overlapped |-> FALSE]

\* thread t has operated on the page and has operations on it left to do
OnPage(t) == threads[t].pc \in {"query", "click"}

\* thread t does one operation on the shared browser or page and goes to
\* next_pc: rec is its record behind the operation.  A thread that is in
\* the middle of its own operations at that moment has been cut into
Operate(t, rec) ==
    threads' =
        [u \in ThreadIds |->
            IF u = t THEN [rec EXCEPT !.ops = @ + 1]
            ELSE IF OnPage(u) THEN [threads[u] EXCEPT !.overlapped = TRUE]
            ELSE threads[u]]

Goes(t, rec) == threads' = [threads EXCEPT ![t] = rec]

ThrInit ==
    /\ threads = [t \in ThreadIds |-> IdleThread]
    /\ page_url = ""
    /\ cb_pc = "unused"
    /\ cb_in = [combined_text |-> "", type_attr |-> "", tag_name |-> ""]
    /\ cb_out = NoTriple
    /\ ServiceIdle
    /\ AuxIdle("threads")

ThrRest ==
    <<catVars, last_typing_time, document, pc, req, buttons, scanned, idx,
      results, processed_count, clicks, guards, faults, response>>

\* a request arrives and a thread takes it
Accept(t) ==
    /\ threads[t].pc = "idle"
    /\ \E h \in ThreadHandlers, u \in ThreadUrls :
         Goes(t, [IdleThread EXCEPT
                    !.handler = h, !.url = u,
                    !.pc = CASE h = "start_session" -> "connect"
                             [] h = "close_session" -> "close"
                             [] OTHER -> "check"])
    /\ UNCHANGED <<page_url, browser, page, playwright, ThrRest>>
    /\ AuxUnchanged("threads")

\* start_session, lines 588-591: close_browser_connection when a browser is
\* held, then connect_to_existing_browser; connected is FALSE when no
\* endpoint answers
Connect(t) ==
    /\ threads[t].pc = "connect"
    /\ \E connected \in BOOLEAN :
         /\ browser' = connected
         /\ page' = IF connected THEN TRUE
                    ELSE IF browser THEN FALSE ELSE page
         /\ playwright' = TRUE
    /\ Operate(t, [threads[t] EXCEPT !.pc = "respond"])
    /\ UNCHANGED <<page_url, ThrRest>>
    /\ AuxUnchanged("threads")

\* close_session, line 705, close_browser_connection, lines 127-134
Close(t) ==
    /\ threads[t].pc = "close"
    /\ browser' = CloseConnection.browser
    /\ page' = CloseConnection.page
    /\ playwright' = CloseConnection.playwright
    /\ Operate(t, [threads[t] EXCEPT !.pc = "respond"])
    /\ UNCHANGED <<page_url, ThrRest>>
    /\ AuxUnchanged("threads")

\* `if not smart_automation.browser`, lines 610 and 629
Check(t) ==
    /\ threads[t].pc = "check"
    /\ Goes(t, [threads[t] EXCEPT !.pc = IF browser THEN "goto" ELSE "respond"])
    /\ UNCHANGED <<page_url, browser, page, playwright, ThrRest>>
    /\ AuxUnchanged("threads")

\* navigate_to_url, lines 143-152: self.page.goto(url) raises when the page
\* is None or the load fails (nav_ok FALSE)
Goto(t) ==
    /\ threads[t].pc = "goto"
    /\ \E nav_ok \in BOOLEAN :
         IF nav_ok /\ page
         THEN /\ page_url' = threads[t].url
              /\ Operate(t, [threads[t] EXCEPT !.pc = "query"])
         ELSE /\ page_url' = page_url
              /\ Goes(t, [threads[t] EXCEPT !.pc = "respond"])
    /\ UNCHANGED <<browser, page, playwright, ThrRest>>
    /\ AuxUnchanged("threads")

\* find_all_buttons, lines 154-211, on whatever the page shows now: n is
\* the number of buttons process_all_buttons will click
Query(t) ==
    /\ threads[t].pc = "query"
    /\ \E n \in 0..MaxThreadClicks :
         LET found == IF page THEN n ELSE 0
             more == threads[t].handler = "process_buttons" /\ found > 0
         IN  Operate(t, [threads[t] EXCEPT
                            !.seen_url = IF page THEN page_url ELSE "",
                            !.left = IF more THEN found ELSE 0,
                            !.pc = IF more THEN "click" ELSE "respond"])
    /\ UNCHANGED <<page_url, browser, page, playwright, ThrRest>>
    /\ AuxUnchanged("threads")

\* button.click(), line 435, of one pass of the loop of lines 491-508
Click(t) ==
    /\ threads[t].pc = "click"
    /\ Operate(t, [threads[t] EXCEPT
                      !.left = @ - 1,
                      !.pc = IF threads[t].left = 1 THEN "respond" ELSE "click"])
    /\ UNCHANGED <<page_url, browser, page, playwright, ThrRest>>
    /\ AuxUnchanged("threads")

\* return jsonify(...): the thread is free again
Respond(t) ==
    /\ threads[t].pc = "respond"
    /\ Goes(t, IdleThread)
    /\ UNCHANGED <<page_url, browser, page, playwright, ThrRest>>
    /\ AuxUnchanged("threads")

ThrNext ==
    \E t \in ThreadIds :
        \/ Accept(t)
        \/ Connect(t)
        \/ Close(t)
        \/ Check(t)
        \/ Goto(t)
        \/ Query(t)
        \/ Click(t)
        \/ Respond(t)

SpecThreads == ThrInit /\ [][ThrNext]_vars

---------------------------------------------------------------------------
(* generate_advanced_selector, enhanced_web_analyzer.py 48-95, as a       *)
(* function of the element and its ancestors                              *)

\* ancestors of an element below the root of the parse tree
MaxAncestors == 6

\* `if len(path_parts) > 5`, line 90
path_cap == 5

\* a bs4 Tag: its name and its attrs; the value of class is a list
Tag(name, attrs) == [name |-> name, attrs |-> attrs]

\* Tag.has_attr
has_attr(tag, key) == key \in DOMAIN tag.attrs

\* the BeautifulSoup object on top of every parse tree: its name is
\* "[document]", it has no attribute and its parent is None
DocumentNode == Tag("[document]", NoAttrs)

\* [c for c in tag['class'] if c]
NonEmptyClasses(tag) == SelectSeq(tag.attrs.class, LAMBDA c : c # "")

\* '.'.join(classes), ' > '.join(parts)
RECURSIVE JoinWith(_, _)
JoinWith(parts, sep) ==
    IF parts = <<>> THEN ""
    ELSE IF Len(parts) = 1 THEN parts[1]
    ELSE parts[1] \o sep \o JoinWith(Tail(parts), sep)

\* reversed(parts)
Reversed(parts) == [k \in 1..Len(parts) |-> parts[Len(parts) + 1 - k]]

\* lines 78-88: the component a node without id adds to the path
PathComponent(current) ==
    IF has_attr(current, "class") /\ NonEmptyClasses(current) # <<>>
    THEN current.name \o "." \o NonEmptyClasses(current)[1]
    ELSE current.name

\* the while loop of lines 77-91: chain[k] is `current` (chain is the
\* element, its ancestors and the document node, whose parent is None)
RECURSIVE PathParts(_, _, _)
PathParts(chain, k, path_parts) ==
    IF k > Len(chain) THEN path_parts
    ELSE IF has_attr(chain[k], "id")
    THEN Append(path_parts, chain[k].name \o "#" \o chain[k].attrs.id)
    ELSE LET parts == Append(path_parts, PathComponent(chain[k]))
         IN  IF Len(parts) > path_cap THEN parts
             ELSE PathParts(chain, k + 1, parts)

\* mutant: high priority is marked on every element
IdSelectors_AlwaysHigh(element) ==
    IF has_attr(element, "id")
    THEN [id_selector |-> "#" \o element.attrs.id, priority |-> "high"]
    ELSE [priority |-> "high"]

\* lines 53-55
IdSelectors(element) ==
    IF has_attr(element, "id")
    THEN [id_selector |-> "#" \o element.attrs.id, priority |-> "high"]
    ELSE NoAttrs

\* lines 58-62
ClassSelectors(element) ==
    IF has_attr(element, "class") /\ NonEmptyClasses(element) # <<>>
    THEN [class_selector |-> element.name \o "."
                                \o JoinWith(NonEmptyClasses(element), "."),
          classes |-> NonEmptyClasses(element)]
    ELSE NoAttrs

\* lines 65-69
AttributeSelectors(element) ==
    (IF has_attr(element, "name")
     THEN [name_selector |-> element.name \o "[name='" \o element.attrs.name \o "']"]
     ELSE NoAttrs)
    @@ (IF has_attr(element, "type")
        THEN [type_selector |-> element.name \o "[type='" \o element.attrs.type \o "']"]
        ELSE NoAttrs)

\* generate_advanced_selector: the dictionary it returns, and path_parts
generate_advanced_selector(chain) ==
    LET element == chain[1]
        path_parts == PathParts(chain, 1, <<>>)
    IN  [selectors |->
            IdSelectors(element) @@ ClassSelectors(element)
                @@ AttributeSelectors(element)
                @@ [tag_selector |-> element.name,
                    hierarchical_path |-> JoinWith(Reversed(path_parts), " > ")],
         path_parts |-> path_parts]

\* dict.get(key), None written ""
Get(dict, key) == IF key \in DOMAIN dict THEN dict[key] ELSE ""

\* analyze_page_content, line 331
primary_selector(selectors) ==
    IF Get(selectors, "id_selector") # "" THEN selectors.id_selector
    ELSE IF Get(selectors, "class_selector") # "" THEN selectors.class_selector
    ELSE Get(selectors, "tag_selector")

\* the elements generate_advanced_selector is called on
SelectorElements ==
    { Tag("span", NoAttrs),
      Tag("input", [id |-> "q", name |-> "query", type |-> "search"]),
      Tag("button", [id |-> "go", class |-> <<"btn", "primary">>]),
      Tag("a", [class |-> <<"", "link">>]),
      Tag("p", [class |-> <<"">>]),
      Tag("input", [type |-> "text"]),
      Tag("h1", [id |-> ""]) }

\* their ancestors
AncestorNodes ==
    { Tag("div", NoAttrs),
      Tag("section", [id |-> "main"]),
      Tag("div", [class |-> <<"box", "wide">>]) }

SelectorChains ==
    { <<e>> \o up \o <<DocumentNode>> :
        e \in SelectorElements,
        up \in UNION { [1..n -> AncestorNodes] : n \in 0..MaxAncestors } }

SelInit ==
    /\ sel_pc = "call"
    /\ sel_in \in SelectorChains
    /\ sel_out = <<>>
    /\ cb_pc = "unused"
    /\ cb_in = [combined_text |-> "", type_attr |-> "", tag_name |-> ""]
    /\ cb_out = NoTriple
    /\ ServiceIdle
    /\ AuxIdle("selector")

GenerateSelector ==
    /\ sel_pc = "call"
    /\ sel_pc' = "return"
    /\ sel_out' = generate_advanced_selector(sel_in)
    /\ UNCHANGED <<sel_in, catVars, serviceVars>>
    /\ AuxUnchanged("selector")

SelNext == GenerateSelector

SpecSel == SelInit /\ [][SelNext]_vars

---------------------------------------------------------------------------
(* categorize_element_advanced, enhanced_web_analyzer.py 175-241, as a    *)
(* function of the element                                                *)

\* lines 23-27
MEDIA_TAGS ==
    {"img", "video", "audio", "source", "picture", "iframe", "embed", "object"}
INTERACTIVE_TAGS ==
    {"a", "button", "input", "select", "textarea", "form", "details", "summary"}
TEXT_TAGS ==
    {"p", "h1", "h2", "h3", "h4", "h5", "h6", "li", "blockquote", "span", "div",
     "article", "section"}
NAVIGATION_TAGS == {"nav", "menu", "menuitem"}
LIST_TAGS == {"ul", "ol", "dl"}

\* lines 30-46
INPUT_TYPES ==
    [text |-> "[*",
     email |-> "5$|# 3?>7$^[|",
     password |-> ">?@6 @$^$",
     number |-> "$=@",
     tel |-> "]47<",
     url |-> "$45,",
     search |-> "5!8",
     date |-> "74$|(",
     time |-> "^=7",
     checkbox |-> "@$5: 4(7|4$",
     radio |-> "4(7|4$ ^4!#",
     file |-> "@?<",
     submit |-> "3$&4?",
     reset |-> "3:4#6 7:||[",
     button |-> "%$"]

\* str.startswith
StartsWith(str, prefix) ==
    Len(str) >= Len(prefix) /\ SubSeq(str, 1, Len(prefix)) = prefix

\* mutant: the test for http comes before the test for javascript:
link_type_HttpFirst(href) ==
    IF StartsWith(href, "#") THEN "internal_anchor"
    ELSE IF StartsWith(href, "mailto:") THEN "email"
    ELSE IF StartsWith(href, "tel:") THEN "phone"
    ELSE IF Contains(href, "http") THEN "external"
    ELSE IF Contains(href, "javascript:") THEN "javascript"
    ELSE "internal"

\* lines 202-211
link_type(href) ==
    IF StartsWith(href, "#") THEN "internal_anchor"
    ELSE IF StartsWith(href, "mailto:") THEN "email"
    ELSE IF StartsWith(href, "tel:") THEN "phone"
    ELSE IF Contains(href, "javascript:") THEN "javascript"
    ELSE IF Contains(href, "http") THEN "external"
    ELSE "internal"

\* mutant: onclick does not make an element interactive
IsInteractive_TagOnly(tag_name, element) == tag_name \in INTERACTIVE_TAGS

\* line 187
IsInteractive(tag_name, element) ==
    tag_name \in INTERACTIVE_TAGS \/ has_attr(element, "onclick")

\* int(tag_name[1]), line 219
HeadingLevel(tag_name) ==
    CASE tag_name = "h1" -> 1 [] tag_name = "h2" -> 2 [] tag_name = "h3" -> 3
      [] tag_name = "h4" -> 4 [] tag_name = "h5" -> 5 [] tag_name = "h6" -> 6

\* lines 192-211
InteractiveDetails(tag_name, element) ==
    IF tag_name = "input"
    THEN LET input_type == IF has_attr(element, "type") THEN element.attrs.type
                           ELSE "text"
         IN  [input_type |-> input_type,
              input_type_ar |-> IF input_type \in DOMAIN INPUT_TYPES
                                THEN INPUT_TYPES[input_type] ELSE input_type]
    ELSE IF tag_name = "a" /\ has_attr(element, "href")
    THEN [link_url |-> element.attrs.href,
          link_type |-> link_type(element.attrs.href)]
    ELSE NoAttrs

\* lines 218-224
TextDetails(tag_name) ==
    IF tag_name \in {"h1", "h2", "h3", "h4", "h5", "h6"}
    THEN [heading_level |-> HeadingLevel(tag_name), importance |-> "high"]
    ELSE IF tag_name = "p" THEN [importance |-> "medium"]
    ELSE [importance |-> "low"]

\* categorize_element_advanced: li_count is len(element.find_all('li'))
categorize_element_advanced(element, li_count) ==
    LET tag_name == Lower(element.name) IN
    IF tag_name \in MEDIA_TAGS
    THEN [primary_type |-> "media", media_subtype |-> tag_name]
            @@ (IF has_attr(element, "src")
                THEN [source_url |-> element.attrs.src] ELSE NoAttrs)
    ELSE IF IsInteractive(tag_name, element)
    THEN [primary_type |-> "interactive", interactive_subtype |-> tag_name]
            @@ InteractiveDetails(tag_name, element)
    ELSE IF tag_name \in TEXT_TAGS
    THEN [primary_type |-> "text", text_subtype |-> tag_name]
            @@ TextDetails(tag_name)
    ELSE IF tag_name \in NAVIGATION_TAGS
    THEN [primary_type |-> "navigation", nav_subtype |-> tag_name]
    ELSE IF tag_name \in LIST_TAGS
    THEN [primary_type |-> "list", list_subtype |-> tag_name,
          list_items_count |-> li_count]
    ELSE [primary_type |-> "container", container_subtype |-> tag_name]

\* the tag names of the elements classified
ElementNames ==
    {"img", "video", "iframe", "a", "button", "input", "form", "p", "h2", "li",
     "span", "div", "nav", "menu", "ul", "dl", "table", "html", "body"}

\* their href attributes
Hrefs ==
    {"#section2", "#", "mailto:a@b.test", "tel:+1555", "javascript:void(0)",
     "javascript:go('http://x.test')", "http://x.test/", "https://x.test/",
     "/about", "page.html?next=http://x.test", "mailto:http@x.test",
     "#javascript:http", "x/tel:1", ""}

\* the attributes of the elements classified
ElementAttrs ==
    {NoAttrs, [onclick |-> "run()"], [type |-> "email"], [type |-> "color"],
     [src |-> "/i.png"], [src |-> "/i.png", onclick |-> "run()"]}
        \cup { [href |-> h] : h \in Hrefs }
        \cup { [href |-> h, onclick |-> "run()"] : h \in {"#section2", "/about"} }

ListItemCounts == {0, 2}

ElInit ==
    /\ el_pc = "call"
    /\ el_in \in [element : { Tag(n, a) : n \in ElementNames, a \in ElementAttrs },
                  li_count : ListItemCounts]
    /\ el_out = <<>>
    /\ cb_pc = "unused"
    /\ cb_in = [combined_text |-> "", type_attr |-> "", tag_name |-> ""]
    /\ cb_out = NoTriple
    /\ ServiceIdle
    /\ AuxIdle("element")

CategorizeElement ==
    /\ el_pc = "call"
    /\ el_pc' = "return"
    /\ el_out' = categorize_element_advanced(el_in.element, el_in.li_count)
    /\ UNCHANGED <<el_in, catVars, serviceVars>>
    /\ AuxUnchanged("element")

ElNext == CategorizeElement

SpecEl == ElInit /\ [][ElNext]_vars

---------------------------------------------------------------------------
(* Repeated classification: categorize_button (click_api.py 252-325) and  *)
(* categorize_element_advanced (enhanced_web_analyzer.py 175-241) called  *)
(* again and again while sessions start and end                           *)

\* calls of the classification that is followed, as far as they are counted
MaxCalls == 2

\* the arguments of the categorize_button calls
PureButtonArgs ==
    { [combined_text |-> "click here  more   ", type_attr |-> "", tag_name |-> "button"],
      [combined_text |-> "send     ", type_attr |-> "submit", tag_name |-> "button"] }

\* the arguments of the categorize_element_advanced calls
PureElementArgs ==
    { [element |-> Tag("a", [href |-> "#section2"]), li_count |-> 0],
      [element |-> Tag("div", [onclick |-> "run()"]), li_count |-> 0] }

\* the call that is followed, before it has been made
Followed(fn, args) ==
    [fn |-> fn, args |-> args, calls |-> 0, first |-> <<>>, browser_then |-> FALSE]

\* the history behind a call of fn on args that returned result
Recorded(fn, args, result) ==
    IF memo.fn = fn /\ memo.args = args
    THEN [memo EXCEPT !.calls = Min(@ + 1, MaxCalls),
                      !.first = IF memo.calls = 0 THEN result ELSE @,
                      !.browser_then = IF memo.calls = 0 THEN browser ELSE @]
    ELSE memo

PureInit ==
    /\ memo \in { Followed("categorize_button", a) : a \in PureButtonArgs }
                \cup { Followed("categorize_element_advanced", a) :
                          a \in PureElementArgs }
    /\ cb_pc = "unused"
    /\ cb_in = [combined_text |-> "", type_attr |-> "", tag_name |-> ""]
    /\ cb_out = NoTriple
    /\ ServiceIdle
    /\ AuxIdle("memo")
    /\ ElIdle

\* mutant: the priority returned depends on a field of the object
ClassifyButton_Stateful ==
    /\ memo.fn = "categorize_button"
    /\ \E a \in PureButtonArgs :
         LET t == categorize_button(a.combined_text, a.type_attr, a.tag_name)
             result == [t EXCEPT !.priority = IF browser THEN @ ELSE 0]
         IN  /\ cb_pc' = "return"
             /\ cb_in' = a
             /\ cb_out' = result
             /\ memo' = Recorded("categorize_button", a, result)
    /\ UNCHANGED <<serviceVars, elVars>>
    /\ AuxUnchanged("memo")

\* a call of categorize_button: the method reads its arguments and its own
\* tables and assigns no field of the object
ClassifyButton ==
    /\ memo.fn = "categorize_button"
    /\ \E a \in PureButtonArgs :
         LET result == categorize_button(a.combined_text, a.type_attr, a.tag_name)
         IN  /\ cb_pc' = "return"
             /\ cb_in' = a
             /\ cb_out' = result
             /\ memo' = Recorded("categorize_button", a, result)
    /\ UNCHANGED <<serviceVars, elVars>>
    /\ AuxUnchanged("memo")

\* a call of categorize_element_advanced: the method reads its argument and
\* the tag sets and assigns no field of the object
ClassifyElement ==
    /\ memo.fn = "categorize_element_advanced"
    /\ \E a \in PureElementArgs :
         LET result == categorize_element_advanced(a.element, a.li_count)
         IN  /\ el_pc' = "return"
             /\ el_in' = a
             /\ el_out' = result
             /\ memo' = Recorded("categorize_element_advanced", a, result)
    /\ UNCHANGED <<serviceVars, catVars>>
    /\ AuxUnchanged("memo")

PureNext ==
    \/ ClassifyButton
    \/ ClassifyElement
    \/ StartSession
    \/ CloseSession
    \/ Deliver

SpecPure == PureInit /\ [][PureNext]_vars

---------------------------------------------------------------------------
(* analyze_button with find_associated_input, click_api.py 213-250 and    *)
(* 327-347, as a function of the element and of the inputs of its parent  *)

\* inputs in the parent of a button
MaxInputs == 3

\* the inputs a parent holds: text-like ones, one without type attribute,
\* a password and a checkbox, a hidden and a disabled one, and one whose
\* handle raises
ParentInputKinds ==
    { Inp("text", "", TRUE, TRUE, FALSE),
      Inp("", "abc", TRUE, TRUE, FALSE),
      Inp("url", " ", TRUE, TRUE, FALSE),
      Inp("password", "x", TRUE, TRUE, FALSE),
      Inp("checkbox", "", TRUE, TRUE, FALSE),
      Inp("text", "h", FALSE, TRUE, FALSE),
      Inp("email", "", TRUE, FALSE, FALSE),
      Inp("search", "q", TRUE, TRUE, TRUE) }

ParentInputs == UNION { [1..n -> ParentInputKinds] : n \in 0..MaxInputs }

\* the buttons analysed: a submit, a search, a navigation and a cookie one
AnalysedButtons ==
    { El("BUTTON", "Send", [type |-> "submit"], TRUE, TRUE, "none", inputs) :
        inputs \in ParentInputs }
    \cup { El("A", "Search", [role |-> "button"], TRUE, TRUE, "none", inputs) :
        inputs \in ParentInputs }
    \cup { El("BUTTON", " Next ", NoAttrs, TRUE, TRUE, "none", inputs) :
        inputs \in ParentInputs }
    \cup { El("DIV", "Accept All", [class |-> "btn"], TRUE, TRUE, "none", inputs) :
        inputs \in ParentInputs }

AbInit ==
    /\ ab_pc = "call"
    /\ ab_in \in AnalysedButtons
    /\ ab_out = <<>>
    /\ cb_pc = "unused"
    /\ cb_in = [combined_text |-> "", type_attr |-> "", tag_name |-> ""]
    /\ cb_out = NoTriple
    /\ ServiceIdle
    /\ AuxIdle("analyze")

AnalyzeButton ==
    /\ ab_pc = "call"
    /\ ab_pc' = "return"
    /\ ab_out' = analyze_button(ab_in, 1)
    /\ UNCHANGED <<ab_in, catVars, serviceVars>>
    /\ AuxUnchanged("analyze")

AbNext == AnalyzeButton

SpecAb == AbInit /\ [][AbNext]_vars

---------------------------------------------------------------------------
(* wait_for_typing_completion, click_api.py 354-406, followed read by read *)

\* values read before the value stream starts repeating
MaxPrefix == 3

\* what one call of input_value() can give
GuardReads == { Rd(""), Rd(" "), Rd("a"), Rd("ab"), RdExc }

\* how the stream goes on: the field keeps its text, the typist goes on
\* changing it, or the field stays empty
GuardCycles == { <<Rd("ab")>>, <<Rd("a"), Rd("ab")>>, <<Rd("")>> }

\* the field's value second by second: the value at second t is
\* values[t + 1], and the last value stays
ValueAt(values, t) ==
    IF t + 1 <= Len(values) THEN values[t + 1] ELSE values[Len(values)]

\* the seconds at which the guard has slept before its n-th call of
\* input_value(): time.sleep(5) after a blank first read (line 370),
\* time.sleep(1) before every poll (line 383)
SecondOfRead(values, n) ==
    IF n = 1 THEN 0
    ELSE IF IsBlank(ValueAt(values, 0))
         THEN empty_wait_seconds + (n - 2)
         ELSE n - 1

\* the stream of reads a guard gets from a field whose value is sampled
\* once per second: enough reads for the cycles of the loop, then the last
\* value
SampledPerSecond(values) ==
    Stream([n \in 1..(max_wait_default + 2) |->
                Rd(ValueAt(values, SecondOfRead(values, n)))],
           <<Rd(ValueAt(values, Len(values)))>>)

\* the value stream "", "", "", "a", "ab", "ab", "ab", "ab"
TypedAb == <<"", "", "", "a", "ab", "ab", "ab", "ab">>

\* the same values given one per call of input_value()
TypedAbPerRead ==
    Stream([n \in 1..Len(TypedAb) |-> Rd(TypedAb[n])], <<Rd("ab")>>)

GuardStreams ==
    { Stream(prefix, cycle) :
        prefix \in UNION { [1..n -> GuardReads] : n \in 0..MaxPrefix },
        cycle \in GuardCycles }
    \cup { TypedAbPerRead, SampledPerSecond(TypedAb) }

WgInit ==
    /\ wg = GuardStart
    /\ wg_stream \in GuardStreams
    /\ cb_pc = "unused"
    /\ cb_in = [combined_text |-> "", type_attr |-> "", tag_name |-> ""]
    /\ cb_out = NoTriple
    /\ ServiceIdle
    /\ AuxIdle("guard")

WgStep ==
    /\ wg' = GuardStep(wg, wg_stream, max_wait_default)
    /\ UNCHANGED <<wg_stream, catVars, serviceVars>>
    /\ AuxUnchanged("guard")

\* lines 362-368: the first read
FirstRead ==
    /\ wg.pc = "start"
    /\ WgStep

\* lines 368-377: the wait on an empty field and the second read
EmptyWait ==
    /\ wg.pc = "empty_wait"
    /\ WgStep

\* lines 382-403: one pass of the while loop, or its end
Poll ==
    /\ wg.pc = "monitor"
    /\ WgStep

WgNext == FirstRead \/ EmptyWait \/ Poll

SpecGuard == WgInit /\ [][WgNext]_vars

\* the call runs on: the thread that executes it is not starved, and
\* time.sleep and input_value() return
SpecGuardFair == SpecGuard /\ WF_vars(WgNext)

---------------------------------------------------------------------------
(* smart_button_click, click_api.py 408-462, as a function of the Button   *)
(* Record and of what the page and the clock do during the call           *)

\* what the associated input shows from the moment its button is about to
\* be clicked: the first value is its value at that moment
ClickStreams == Streams \cup { Stream(<<Rd("ab")>>, <<Rd("ab")>>) }

\* the Button Records find_all_buttons made of the elements of the pool
ClickButtons ==
    { [Analysis[p] EXCEPT !.element = p] :
        p \in { q \in 1..Len(ElementPool) :
                 /\ ElementPool[q].fault = "none"
                 /\ ElementPool[q].visible
                 /\ ElementPool[q].enabled } }

ScInit ==
    /\ sc_pc = "call"
    /\ \E b \in ClickButtons, click_ok \in BOOLEAN, now \in NowValues :
         \E stream \in IF b.associated_input.present
                       THEN ClickStreams ELSE {NoStream} :
            sc_in = [button_info |-> b, stream |-> stream,
                     click_ok |-> click_ok, now |-> now]
    /\ sc_out = <<>>
    /\ cb_pc = "unused"
    /\ cb_in = [combined_text |-> "", type_attr |-> "", tag_name |-> ""]
    /\ cb_out = NoTriple
    /\ ServiceIdle
    /\ AuxIdle("click")

SmartButtonClick ==
    /\ sc_pc = "call"
    /\ sc_pc' = "return"
    /\ sc_out' = smart_button_click(sc_in.button_info,
                     [stream |-> sc_in.stream, click_ok |-> sc_in.click_ok,
                      now |-> sc_in.now], last_typing_time)
    /\ UNCHANGED <<sc_in, catVars, serviceVars>>
    /\ AuxUnchanged("click")

ScNext == SmartButtonClick

SpecClick == ScInit /\ [][ScNext]_vars

---------------------------------------------------------------------------
(* The fill handler and the clock, click_api.py 711-729 and 349-352 *)

\* seconds the clock is followed
MaxTicks == 5

FlInit ==
    /\ cb_pc = "unused"
    /\ cb_in = [combined_text |-> "", type_attr |-> "", tag_name |-> ""]
    /\ cb_out = NoTriple
    /\ ServiceIdle
    /\ fl_clock = MinNow
    /\ fl_last_fill = 0
    /\ AuxIdle("flag")

\* fill_form, lines 711-729: the only fill operation of the service.  It
\* assigns no attribute of smart_automation
FillForm ==
    /\ Idle
    /\ \E url \in Urls :
         IF url = ""
         THEN /\ Reject("fill_form", url, NoCategories, "Please provide page URL")
         ELSE IF ~browser
         THEN /\ Reject("fill_form", url, NoCategories, "Please start session first")
         ELSE /\ response' = [success |-> TRUE,
                              message |-> "Form filling functionality available"]
              /\ pc' = "done"
              /\ req' = [handler |-> "fill_form", url |-> url,
                         categories |-> NoCategories]
              /\ fl_last_fill' = fl_clock
              /\ Fresh
              /\ UNCHANGED <<fl_clock, catVars, browser, page, playwright,
                             last_typing_time, document>>
              /\ AuxUnchanged("flag")

\* a second passes
Tick ==
    /\ fl_clock < MinNow + MaxTicks
    /\ fl_clock' = fl_clock + 1
    /\ UNCHANGED <<fl_last_fill, catVars, serviceVars>>
    /\ AuxUnchanged("flag")

FlNext == FillForm \/ Tick \/ StartSession \/ CloseSession \/ Deliver

SpecFlag == FlInit /\ [][FlNext]_vars

---------------------------------------------------------------------------
(* find_all_buttons, click_api.py 160-211, as a function of the document  *)
(* on the page and of the queries that raise                             *)

\* elements of a scanned document
MaxScan == 3

\* the elements of the pool the scanned documents are made of: matched by
\* one selector or by several, with the same tag, class and text as
\* another, disabled, hidden, detached
ScanPool == {1, 5, 7, 9, 10, 11, 12, 13}

ScanDocs == UNION { [1..n -> ScanPool] : n \in 0..MaxScan }

FsInit ==
    /\ fs_pc = "call"
    /\ \E d \in ScanDocs, failing \in FailingSets :
         fs_in = [doc |-> d, failing |-> failing]
    /\ fs_out = <<>>
    /\ cb_pc = "unused"
    /\ cb_in = [combined_text |-> "", type_attr |-> "", tag_name |-> ""]
    /\ cb_out = NoTriple
    /\ ServiceIdle
    /\ AuxIdle("scan")

FindAllButtons ==
    /\ fs_pc = "call"
    /\ fs_pc' = "return"
    /\ fs_out' = find_all_buttons(fs_in.doc, fs_in.failing)
    /\ UNCHANGED <<fs_in, catVars, serviceVars>>
    /\ AuxUnchanged("scan")

FsNext == FindAllButtons

SpecScan == FsInit /\ [][FsNext]_vars

---------------------------------------------------------------------------
(* start_session and close_session with the Playwright drivers they start *)
(* and stop, click_api.py 46-141 and 584-597, 701-708                    *)

\* drivers followed
MaxDrivers == 3

DrInit ==
    /\ cb_pc = "unused"
    /\ cb_in = [combined_text |-> "", type_attr |-> "", tag_name |-> ""]
    /\ cb_out = NoTriple
    /\ ServiceIdle
    /\ dr_running = 0
    /\ AuxIdle("drivers")

\* start_session: close_browser_connection stops the driver held in
\* self.playwright when self.browser is set (lines 587-588, 132-134), then
\* sync_playwright().start() starts one (line 49)
StartDriver ==
    /\ Idle
    /\ \E driver_ok \in BOOLEAN, outs \in ConnectOutcomes :
         /\ StartSessionWith(driver_ok, outs)
         /\ dr_running' = dr_running
                            - (IF browser /\ playwright THEN 1 ELSE 0)
                            + (IF driver_ok THEN 1 ELSE 0)
    /\ dr_running' <= MaxDrivers
    /\ AuxUnchanged("drivers")

\* close_session: self.playwright.stop() when self.playwright is set
StopDriver ==
    /\ Idle
    /\ CloseSessionBody
    /\ dr_running' = dr_running - (IF playwright THEN 1 ELSE 0)
    /\ AuxUnchanged("drivers")

DrNext ==
    \/ StartDriver
    \/ StopDriver
    \/ Deliver
    \/ ProcessButtons
    \/ ClickStep
    \/ ProcessReturn
    \/ ScanButtons

SpecDrivers == DrInit /\ [][DrNext]_vars

---------------------------------------------------------------------------
(* click_specific_button, click_api.py 660-699, beside the other handlers *)

\* the `category` and the `text` of a request body; "" when absent
TargetCategories == {"", "submit", "cancel"}
TargetTexts == {"", "Next"}

\* lines 683-689: the button at position k of the scan is the target
IsTarget(b, category, text) ==
    \/ category # "" /\ b.category = category
    \/ text # "" /\ Contains(Lower(b.text), Lower(text))

\* lines 682-689: the position of the first target in the scan, 0 when
\* there is none
TargetIn(found, category, text) ==
    IF \E k \in 1..Len(found) : IsTarget(found[k], category, text)
    THEN CHOOSE k \in 1..Len(found) :
            /\ IsTarget(found[k], category, text)
            /\ \A j \in 1..(k - 1) : ~IsTarget(found[j], category, text)
    ELSE 0

ClickSpecificButton ==
    /\ Idle
    /\ \E url \in Urls, category \in TargetCategories, text \in TargetTexts :
         IF url = ""
         THEN Reject("click_specific_button", url, NoCategories,
                     "Please provide page URL")
         ELSE IF category = "" /\ text = ""
         THEN Reject("click_specific_button", url, NoCategories,
                     "Please provide either button category or text")
         ELSE IF ~browser
         THEN Reject("click_specific_button", url, NoCategories,
                     "Please start session first")
         ELSE
           /\ req' = [handler |-> "click_specific_button", url |-> url,
                      categories |-> NoCategories, category |-> category,
                      text |-> text]
           /\ pc' = "done"
           /\ idx' = 0
           /\ results' = <<>>
           /\ processed_count' = 0
           /\ UNCHANGED <<auxVars, catVars, browser, page, playwright, last_typing_time>>
           /\ \E nav_ok \in BOOLEAN :
                IF ~(nav_ok /\ page)
                THEN /\ response' = [success |-> FALSE, message |-> "Failed to load page"]
                     /\ faults' = {"navigation"}
                     /\ clicks' = <<>>
                     /\ guards' = <<>>
                     /\ UNCHANGED <<document, scanned, buttons>>
                ELSE \E d \in Docs, failing \in FailingSets :
                  \E scan \in {ScanOf[d][failing]} :
                  \E found \in {scan.buttons} :
                  \E t \in {TargetIn(found, category, text)} :
                  \E scan_faults \in {IF scan.errors > 0 THEN {"query"} ELSE {}} :
                  /\ document' = d
                  /\ scanned' = found
                  /\ buttons' = found
                  /\ IF t = 0
                     THEN /\ response' = [success |-> FALSE,
                                          message |-> "Button not found"]
                          /\ clicks' = <<>>
                          /\ guards' = <<>>
                          /\ faults' = scan_faults
                     ELSE \E click_ok \in BOOLEAN, now \in NowValues :
                          \E stream \in IF GuardEntered(found[t], now, last_typing_time)
                                        THEN Streams ELSE {NoStream} :
                            \E b \in {found[t]} :
                            \E r \in {smart_button_click(b,
                                        [stream |-> stream, click_ok |-> click_ok,
                                         now |-> now], last_typing_time)} :
                                /\ response' = r.result
                                /\ clicks' = IF r.clicked
                                             THEN <<[element |-> b.element,
                                                     raised |-> ~click_ok]>>
                                             ELSE <<>>
                                /\ guards' = IF r.entered
                                             THEN <<[element |-> b.element,
                                                     ret |-> r.guard.ret,
                                                     path |-> r.guard.path,
                                                     raised |-> r.guard.raised]>>
                                             ELSE <<>>
                                /\ faults' = scan_faults
                                     \cup (IF r.clicked /\ ~click_ok THEN {"click"} ELSE {})
                                     \cup (IF r.entered /\ r.guard.raised
                                           THEN {"read"} ELSE {})

GateNext ==
    \/ Deliver
    \/ StartSession
    \/ CloseSession
    \/ ProcessButtons
    \/ ClickStep
    \/ ProcessReturn
    \/ ScanButtons
    \/ ClickSpecificButton

SpecGate == Init /\ [][GateNext]_vars

---------------------------------------------------------------------------
(* Claims about categorize_button, checked under SpecCat *)

\* the order of the table rows as the claim gives it
ClaimOrder ==
    <<"cookie_consent", "terms_agreement", "submit", "navigation", "search",
      "choice", "cancel">>

\* the trigger of a table row as the claim gives it
RowTriggers(row, a) ==
    CASE row = "cookie_consent" -> MatchAny(cookie_patterns, a.combined_text)
      [] row = "terms_agreement" -> MatchAny(terms_patterns, a.combined_text)
      [] row = "submit" ->
            \/ a.type_attr = "submit"
            \/ a.tag_name = "button" /\ Contains(a.combined_text, "submit")
      [] row = "navigation" -> MatchAny(navigation_patterns, a.combined_text)
      [] row = "search" -> MatchAny(search_patterns, a.combined_text)
      [] row = "choice" -> MatchAny(choice_patterns, a.combined_text)
      [] row = "cancel" -> MatchAny(cancel_patterns, a.combined_text)

\* C1: the category categorize_button returns is the first row, in the order
\* cookie_consent, terms_agreement, submit, navigation, search, choice,
\* cancel, whose trigger matches, and general when none does; a text holding
\* a cookie keyword and a cancel keyword is cookie_consent with priority 10.
C1_FirstMatchWins ==
    cb_pc = "return" =>
        LET hit == { k \in 1..Len(ClaimOrder) : RowTriggers(ClaimOrder[k], cb_in) }
            first == CHOOSE k \in hit : \A j \in hit : k <= j
        IN  /\ cb_out.category = IF hit = {} THEN "general" ELSE ClaimOrder[first]
            /\ (/\ MatchAny(cookie_patterns, cb_in.combined_text)
                /\ MatchAny(cancel_patterns, cb_in.combined_text))
               => cb_out.category = "cookie_consent" /\ cb_out.priority = 10

C1_Witness ==
    /\ cb_pc = "return"
    /\ MatchAny(cookie_patterns, cb_in.combined_text)
    /\ MatchAny(cancel_patterns, cb_in.combined_text)
    /\ cb_out.category = "cookie_consent"

\* the category table of the claim
ClaimPriority ==
    { <<"cookie_consent", 10>>, <<"terms_agreement", 9>>, <<"submit", 8>>,
      <<"navigation", 7>>, <<"search", 6>>, <<"choice", 5>>, <<"general", 3>>,
      <<"cancel", 2>> }

\* C2: every record categorize_button returns has its (category, priority)
\* in the fixed table, so the priority is a function of the category and
\* lies in 2..10.
C2_PriorityOfCategory ==
    cb_pc = "return" =>
        /\ <<cb_out.category, cb_out.priority>> \in ClaimPriority
        /\ cb_out.priority \in 2..10

C2_Witness ==
    /\ cb_pc = "return"
    /\ cb_out.category = "general"
    /\ cb_out.priority = 3

\* C3: with no cookie keyword and no terms keyword in the text, the result is
\* submit with priority 8 exactly when the type attribute is "submit", or
\* the tag is button and the text holds "submit".
C3_SubmitTrigger ==
    (/\ cb_pc = "return"
     /\ ~MatchAny(cookie_patterns, cb_in.combined_text)
     /\ ~MatchAny(terms_patterns, cb_in.combined_text))
    => /\ cb_out.category = "submit"
          <=> \/ cb_in.type_attr = "submit"
              \/ cb_in.tag_name = "button" /\ Contains(cb_in.combined_text, "submit")
       /\ cb_out.category = "submit" => cb_out.priority = 8

\* <button type="submit">Send</button>
C3_Witness ==
    /\ cb_pc = "return"
    /\ cb_in = [combined_text |-> "send", type_attr |-> "submit", tag_name |-> "button"]
    /\ cb_out.category = "submit"
    /\ cb_out.priority = 8


---------------------------------------------------------------------------
(* Claims about process_all_buttons and scan_buttons, checked under Spec *)

\* the place of the button made from element e in the discovery order
Discovered(e) == CHOOSE k \in 1..Len(scanned) : scanned[k].element = e

\* the buttons click() was called on, in the order of the calls
ClickedButtons ==
    [k \in 1..Len(clicks) |-> scanned[Discovered(clicks[k].element)]]

ProcessDone == pc = "done" /\ req.handler = "process_buttons"

\* process_all_buttons was called and has returned
ProcessCalled == ProcessDone /\ idx > 0
ScanDone == pc = "done" /\ req.handler = "scan_buttons" /\ response.success

\* the order of the categories as the claim gives it
CategoryOrder ==
    <<"cookie_consent", "terms_agreement", "submit", "navigation", "search",
      "choice", "general", "cancel">>

Rank(c) == CHOOSE k \in DOMAIN CategoryOrder : CategoryOrder[k] = c

Descending(bs) ==
    \A i, j \in 1..Len(bs) :
        i < j => /\ bs[i].priority >= bs[j].priority
                 /\ Rank(bs[i].category) <= Rank(bs[j].category)

\* C4: in the output of scan_buttons and in the sequence of clicks of
\* process_all_buttons no button comes before a button of strictly higher
\* priority, so that the categories come in the order cookie_consent,
\* terms_agreement, submit, navigation, search, choice, general, cancel
C4_PriorityDescending ==
    /\ Descending(ClickedButtons)
    /\ ScanDone => /\ Descending(response.buttons)
                   /\ response.buttons_count = Len(scanned)
                   /\ Len(response.buttons) = Len(scanned)

\* two buttons were clicked, the one of higher priority first although it
\* was discovered last
C4_Witness ==
    /\ ProcessDone
    /\ \E i, j \in 1..Len(clicks) :
          /\ i < j
          /\ ClickedButtons[i].priority > ClickedButtons[j].priority
          /\ Discovered(clicks[i].element) > Discovered(clicks[j].element)

EqualKeepDiscovery(bs) ==
    \A i, j \in 1..Len(bs) :
        (i < j /\ bs[i].priority = bs[j].priority)
            => Discovered(bs[i].element) < Discovered(bs[j].element)

\* C5: buttons of equal priority keep the order in which the scan discovered
\* them, in the list scan_buttons returns and in the sequence of clicks
C5_StableSort ==
    /\ EqualKeepDiscovery(buttons)
    /\ EqualKeepDiscovery(ClickedButtons)
    /\ ScanDone => \A k \in 1..Len(buttons) :
                      response.buttons[k] = ButtonInfo(buttons[k])

\* two buttons of equal priority were clicked in their discovery order,
\* which is not their order in the document
C5_Witness ==
    /\ ProcessDone
    /\ \E i, j \in 1..Len(clicks) :
          /\ i < j
          /\ ClickedButtons[i].priority = ClickedButtons[j].priority
          /\ clicks[i].element > clicks[j].element

Leaves(category) == category \in {"navigation", "submit"}

\* C6: the click loop ends right behind the first navigation or submit
\* button it processes, whether the click succeeded or not, and ends early
\* for no other reason: of the discovered [general, submit, cancel] only the
\* submit button is touched
C6_EarlyExit ==
    /\ \A k \in 1..Len(results) : Leaves(results[k].category) => k = Len(results)
    /\ (pc \in {"return", "done"} /\ req.handler = "process_buttons"
        /\ buttons # <<>>)
          => \/ Len(results) = Len(buttons)
             \/ results # <<>> /\ Leaves(results[Len(results)].category)
    /\ \A k \in 1..Len(results) : results[k].category = buttons[k].category
    /\ (ProcessDone /\ response.success /\ ~Truthy(req.categories)
        /\ [k \in 1..Len(scanned) |-> scanned[k].category]
              = <<"general", "submit", "cancel">>)
          => /\ Len(results) = 1
             /\ results[1].category = "submit"
             /\ Len(clicks) = 1
             /\ ClickedButtons[1].category = "submit"

\* [general, submit, cancel] was discovered, the click on the submit button
\* raised, and the loop was left behind it
C6_Witness ==
    /\ ProcessDone
    /\ response.success
    /\ ~Truthy(req.categories)
    /\ [k \in 1..Len(scanned) |-> scanned[k].category]
          = <<"general", "submit", "cancel">>
    /\ response.total_buttons = 3
    /\ Len(response.results) = 1
    /\ ~response.results[1].success

\* the number of buttons of the scan a request asks for
Wanted(categories) ==
    Cardinality({ k \in 1..Len(scanned) :
                    scanned[k].category \in Range(categories.list) })

\* C7: a successful call reports total_buttons, the number of buttons left
\* behind the category filter, results, one entry for each button attempted
\* in the order of the clicks, and processed_buttons, the number of entries
\* of results with success = true.  (`buttons` is the list behind the filter
\* statement, lines 481-483, which an empty list does not run.)
C7_Counts ==
    (ProcessDone /\ response.success) =>
        /\ response.total_buttons = Len(buttons)
        /\ req.categories.kind = "none" => response.total_buttons = Len(scanned)
        /\ (req.categories.kind = "list" /\ req.categories.list # <<>>)
              => response.total_buttons = Wanted(req.categories)
        /\ Len(response.results) = Len(clicks)
        /\ \A k \in 1..Len(clicks) :
              response.results[k].category = ClickedButtons[k].category
        /\ response.processed_buttons
              = Cardinality({ k \in 1..Len(response.results) :
                                response.results[k].success })
        /\ response.processed_buttons <= Len(response.results)
        /\ Len(response.results) <= response.total_buttons

\* a call whose filter removed a button and that clicked one button with
\* success and one without
C7_Witness ==
    /\ ProcessDone
    /\ response.success
    /\ req.categories.kind = "list"
    /\ response.total_buttons < Len(scanned)
    /\ response.processed_buttons = 1
    /\ Len(response.results) = 2


\* C8: when a request supplies a category filter, the category of every
\* button process_all_buttons clicks is a member of the filter
C8_FilterRestrictsClicks ==
    (req.handler = "process_buttons" /\ req.categories.kind = "list")
        => \A k \in 1..Len(clicks) :
              ClickedButtons[k].category \in Range(req.categories.list)

\* C9: the typing guard fails open: on each of its paths
\* wait_for_typing_completion returns True, smart_button_click goes on to the
\* click, and no result carries "Timeout waiting for typing completion"
C9_GuardFailsOpen ==
    /\ \A k \in 1..Len(guards) :
          /\ guards[k].ret
          /\ \E c \in 1..Len(clicks) : clicks[c].element = guards[k].element
    /\ Len(clicks) = Len(results)
    /\ \A k \in 1..Len(results) :
          results[k].message # "Timeout waiting for typing completion"

\* the guard ran out of cycles on an input that kept changing, and the
\* button was clicked
C9_Witness ==
    /\ ProcessDone
    /\ \E k \in 1..Len(guards) :
          /\ guards[k].path = "max_wait"
          /\ \E c \in 1..Len(clicks) :
                clicks[c].element = guards[k].element /\ ~clicks[c].raised

\* the result of the click on the button the guard entry g belongs to
ResultOfGuard(g) ==
    results[CHOOSE c \in 1..Len(clicks) : clicks[c].element = g.element]

---------------------------------------------------------------------------
(* Claims about the request threads, checked under SpecThreads *)

\* C11: the operations of concurrent requests on the shared page are
\* serialized: no request operates on the browser or the page while another
\* request is between two of its own navigate, query and click operations
C11_Serialized ==
    \A t \in DOMAIN threads :
        /\ ~threads[t].overlapped
        /\ \A u \in DOMAIN threads : (OnPage(t) /\ OnPage(u)) => t = u


---------------------------------------------------------------------------
(* Claims about generate_advanced_selector, checked under SpecSel *)

\* the first node of the chain, from the element upwards, that bears an id
\* (0 when there is none)
FirstWithId(chain) ==
    IF \E k \in 1..Len(chain) : has_attr(chain[k], "id")
    THEN CHOOSE k \in 1..Len(chain) :
            /\ has_attr(chain[k], "id")
            /\ \A j \in 1..(k - 1) : ~has_attr(chain[j], "id")
    ELSE 0

\* the number of components of a joined path
RECURSIVE Separators(_)
Separators(path) ==
    IF Len(path) < 3 THEN 0
    ELSE (IF SubSeq(path, 1, 3) = " > " THEN 1 ELSE 0)
            + Separators(SubSeq(path, 2, Len(path)))

\* C12: the hierarchical path has at most 5 components, and the walk
\* upwards stops at the first node, from the element itself, that bears an
\* id, which is the outermost component of the path
C12_PathBounded ==
    sel_pc = "return" =>
        /\ Len(sel_out.path_parts) <= 5
        /\ Separators(sel_out.selectors.hierarchical_path) + 1 <= 5
        /\ FirstWithId(sel_in) \in 1..5 =>
              /\ Len(sel_out.path_parts) = FirstWithId(sel_in)
              /\ sel_out.path_parts[Len(sel_out.path_parts)]
                    = sel_in[FirstWithId(sel_in)].name \o "#"
                        \o sel_in[FirstWithId(sel_in)].attrs.id


\* C13: an element with an id gets id_selector = "#" + id and priority
\* high; an element without id gets neither, and its primary selector is
\* its class selector, or its tag selector when it has no class selector
C13_IdSelector ==
    sel_pc = "return" =>
        LET element == sel_in[1]
            selectors == sel_out.selectors
        IN  /\ has_attr(element, "id") =>
                  /\ selectors.id_selector = "#" \o element.attrs.id
                  /\ selectors.priority = "high"
                  /\ primary_selector(selectors) = selectors.id_selector
            /\ ~has_attr(element, "id") =>
                  /\ "id_selector" \notin DOMAIN selectors
                  /\ "priority" \notin DOMAIN selectors
                  /\ primary_selector(selectors) =
                        IF "class_selector" \in DOMAIN selectors
                        THEN selectors.class_selector
                        ELSE element.name
            /\ selectors.tag_selector = element.name
            /\ "class_selector" \in DOMAIN selectors
                  <=> /\ has_attr(element, "class")
                      /\ \E k \in 1..Len(element.attrs.class) :
                            element.attrs.class[k] # ""

\* an element without id whose class attribute holds an empty and a
\* non-empty token: the class selector is its primary selector
C13_Witness ==
    /\ sel_pc = "return"
    /\ ~has_attr(sel_in[1], "id")
    /\ has_attr(sel_in[1], "class")
    /\ sel_in[1].attrs.class[1] = ""
    /\ primary_selector(sel_out.selectors) = "a.link"
    /\ \E k \in 2..Len(sel_in) : has_attr(sel_in[k], "id")


---------------------------------------------------------------------------
(* Claims about categorize_element_advanced, checked under SpecEl *)

PrimaryTypes ==
    {"media", "interactive", "text", "navigation", "list", "container"}

TagSets ==
    <<MEDIA_TAGS, INTERACTIVE_TAGS, TEXT_TAGS, NAVIGATION_TAGS, LIST_TAGS>>

\* C14: every element gets one primary_type, that of the first branch that
\* matches in the order media, interactive, text, navigation, list,
\* container: a media tag is media also with onclick, an interactive tag or
\* any other element with onclick is interactive, then the tag sets decide,
\* and a tag of no set is container; the five tag sets are pairwise disjoint
C14_PrimaryType ==
    /\ \A i, j \in DOMAIN TagSets : i # j => TagSets[i] \cap TagSets[j] = {}
    /\ el_pc = "return" =>
        LET tag == el_in.element.name
            onclick == has_attr(el_in.element, "onclick")
            type == el_out.primary_type
        IN  /\ type \in PrimaryTypes
            /\ tag \in MEDIA_TAGS => type = "media"
            /\ (tag \notin MEDIA_TAGS /\ (tag \in INTERACTIVE_TAGS \/ onclick))
                  => type = "interactive"
            /\ (tag \notin MEDIA_TAGS /\ ~onclick) =>
                  /\ tag \in TEXT_TAGS => type = "text"
                  /\ tag \in NAVIGATION_TAGS => type = "navigation"
                  /\ tag \in LIST_TAGS => type = "list"
                  /\ (\A k \in DOMAIN TagSets : tag \notin TagSets[k])
                        => type = "container"

\* a div with onclick has been classified: it is interactive
C14_Witness ==
    /\ el_pc = "return"
    /\ el_in.element.name = "div"
    /\ has_attr(el_in.element, "onclick")
    /\ el_out.primary_type = "interactive"

\* C15: the link_type of an a element with href is that of the first rule
\* that matches in the order: starts with "#" internal_anchor, starts with
\* "mailto:" email, starts with "tel:" phone, holds "javascript:"
\* javascript, holds "http" external, else internal; <a href="#section2">
\* is interactive with link_type internal_anchor; an a element without href
\* has no link_type
C15_LinkType ==
    (el_pc = "return" /\ el_in.element.name = "a") =>
        /\ el_out.primary_type = "interactive"
        /\ ~has_attr(el_in.element, "href") => "link_type" \notin DOMAIN el_out
        /\ has_attr(el_in.element, "href") =>
            LET href == el_in.element.attrs.href
                hash == StartsWith(href, "#")
                mailto == StartsWith(href, "mailto:")
                tel == StartsWith(href, "tel:")
                js == Contains(href, "javascript:")
                http == Contains(href, "http")
            IN  /\ el_out.link_url = href
                /\ hash => el_out.link_type = "internal_anchor"
                /\ (~hash /\ mailto) => el_out.link_type = "email"
                /\ (~hash /\ ~mailto /\ tel) => el_out.link_type = "phone"
                /\ (~hash /\ ~mailto /\ ~tel /\ js)
                      => el_out.link_type = "javascript"
                /\ (~hash /\ ~mailto /\ ~tel /\ ~js /\ http)
                      => el_out.link_type = "external"
                /\ (~hash /\ ~mailto /\ ~tel /\ ~js /\ ~http)
                      => el_out.link_type = "internal"
                /\ href = "#section2" => el_out.link_type = "internal_anchor"

\* a javascript: link that holds http has been classified javascript
C15_Witness ==
    /\ el_pc = "return"
    /\ el_in.element.name = "a"
    /\ has_attr(el_in.element, "href")
    /\ Contains(el_in.element.attrs.href, "http")
    /\ el_out.link_type = "javascript"


---------------------------------------------------------------------------
(* Claims about repeated classification, checked under SpecPure *)

\* the fields of the service object
ObjectFields == <<playwright, browser, page, last_typing_time>>

\* the step is a call of one of the two classification methods
Classifies ==
    <<cb_pc, cb_in, cb_out, el_pc, el_in, el_out, memo>>'
        # <<cb_pc, cb_in, cb_out, el_pc, el_in, el_out, memo>>

\* the call that is followed has just returned
FollowedReturned ==
    \/ /\ memo.fn = "categorize_button"
       /\ cb_pc = "return"
       /\ cb_in = memo.args
    \/ /\ memo.fn = "categorize_element_advanced"
       /\ el_pc = "return"
       /\ el_in = memo.args

---------------------------------------------------------------------------
(* Claims about find_associated_input, checked under SpecAb *)

\* input k of the parent is visible, enabled and of a text-like type
TextLike(inputs, k) ==
    /\ inputs[k].visible
    /\ inputs[k].enabled
    /\ inputs[k].type \in {"", "text", "search", "email", "url"}

\* the lookup fails: a handle raises before a text-like input is reached,
\* or the text-like input reached raises
LookupFails(inputs) ==
    \E k \in 1..Len(inputs) :
        /\ inputs[k].fault
        /\ \A j \in 1..(k - 1) : ~TextLike(inputs, j)

\* C17: the associated_input of a submit, search or navigation button is
\* the first input of the button's parent that is visible, enabled and of
\* type text, search, email or url (no type counts as text); it is null when
\* the parent holds no such input or the lookup fails; it is never a hidden,
\* disabled, password or checkbox input
C17_AssociatedInput ==
    (ab_pc = "return" /\ ab_out.category \in {"submit", "search", "navigation"}) =>
        LET inputs == ab_in.parent_inputs
            found == ab_out.associated_input
        IN  /\ found.present =>
                  /\ found.element \in 1..Len(inputs)
                  /\ TextLike(inputs, found.element)
                  /\ \A j \in 1..(found.element - 1) : ~TextLike(inputs, j)
                  /\ found.value = inputs[found.element].value
                  /\ found.type \in {"text", "search", "email", "url"}
                  /\ inputs[found.element].type = "" => found.type = "text"
                  /\ inputs[found.element].type \notin {"password", "checkbox"}
            /\ ~found.present
                  <=> \/ \A k \in 1..Len(inputs) : ~TextLike(inputs, k)
                      \/ LookupFails(inputs)

\* a navigation button whose parent holds a hidden input, a password input
\* and then an input without type attribute: the third is recorded, as text
C17_Witness ==
    /\ ab_pc = "return"
    /\ ab_out.category = "navigation"
    /\ Len(ab_in.parent_inputs) = 3
    /\ ~ab_in.parent_inputs[1].visible
    /\ ab_in.parent_inputs[2].type = "password"
    /\ ab_in.parent_inputs[3].type = ""
    /\ ab_out.associated_input.present
    /\ ab_out.associated_input.element = 3
    /\ ab_out.associated_input.type = "text"


---------------------------------------------------------------------------
(* Claims about wait_for_typing_completion, checked under SpecGuard *)

\* the value the next poll is compared with: what the previous poll read,
\* and for the first poll what the guard read at its entry
PreviousPoll ==
    IF wg.wait_cycles = 0 THEN wg.initial_value
    ELSE ReadAt(wg_stream, wg.reads).v

\* the poll that read call n of input_value() read the value of the poll
\* before it (the first poll: the value read at the entry)
SameAsBefore(n) ==
    /\ ReadAt(wg_stream, n).ok
    /\ ReadAt(wg_stream, n).v
         = IF n = wg.reads - wg.wait_cycles + 1 THEN wg.initial_value
           ELSE ReadAt(wg_stream, n - 1).v

\* C18: in the monitoring loop a poll that reads another value than the
\* poll before sets the stability counter to 0 and one that reads the same
\* value adds 1 to it; the guard returns through the stable path exactly
\* when the counter reaches 3, so only after three polls in a row that each
\* read the value of the poll before, never earlier
C18_StabilityCounter ==
    /\ [][(Poll /\ wg.wait_cycles < max_wait_default
                /\ ReadAt(wg_stream, wg.reads + 1).ok) =>
            LET v == ReadAt(wg_stream, wg.reads + 1).v IN
            /\ v # PreviousPoll => wg'.stable_count = 0
            /\ v = PreviousPoll => wg'.stable_count = wg.stable_count + 1
            /\ wg'.path = "stable" <=> wg'.stable_count = 3
            /\ wg'.path = "stable" <=> wg'.pc = "returned"]_vars
    /\ [](/\ wg.stable_count \in 0..3
          /\ wg.stable_count <= wg.wait_cycles
          /\ wg.path = "stable" <=> wg.stable_count = 3
          /\ wg.path = "stable" =>
                /\ wg.ret
                /\ wg.wait_cycles >= 3
                /\ \A k \in 0..2 : SameAsBefore(wg.reads - k)
          /\ wg.path # "poll_read_raised" =>
                \A k \in 0..(wg.stable_count - 1) : SameAsBefore(wg.reads - k))

\* the field read "a" at the entry and then "ab": the first poll reset the
\* counter and the guard returned stable after the fourth
C18_Witness ==
    /\ wg.pc = "returned"
    /\ wg.path = "stable"
    /\ wg.initial_value = "a"
    /\ wg.wait_cycles = 4
    /\ wg.stable_count = 3

\* C19: on the value stream "", "", "", "a", "ab", "ab", "ab", "ab", one
\* value per second, the guard returns through the stable path exactly at
\* the third repeat of "ab" (the eighth value), not while the value is
\* still "" or "a" and not after fewer repeats; the stream is taken both
\* as one value per call of input_value() and as one value per second slept
C19_StableAtThirdRepeat ==
    (wg_stream \in {TypedAbPerRead, SampledPerSecond(TypedAb)}
        /\ wg.pc = "returned") =>
        /\ wg.path = "stable"
        /\ ReadAt(wg_stream, wg.reads).v = "ab"
        /\ wg_stream = TypedAbPerRead => wg.reads = Len(TypedAb)
        /\ wg_stream = SampledPerSecond(TypedAb) => wg.slept = Len(TypedAb) - 1

\* the text is empty or holds white space only
Blank(text) == text \in {"", " ", "  "}

\* the field is read empty or blank at the entry
StartsBlank ==
    /\ ReadAt(wg_stream, 1).ok
    /\ Blank(ReadAt(wg_stream, 1).v)

\* C20: when the field is empty or blank at the entry the guard sleeps 5
\* seconds once and reads again; still empty or blank: it returns success
\* at once, without a pass of the polling loop; content has appeared: it
\* enters the polling loop, with the counter at 0, and returns stable only
\* when the counter has reached 3
C20_EmptyStart ==
    LET second == ReadAt(wg_stream, 2) IN
        /\ wg.pc = "empty_wait" => (wg.reads = 1 /\ wg.slept = 0 /\ Blank(wg.initial_value))
        /\ (StartsBlank /\ wg.reads >= 1) => wg.pc # "monitor" \/ wg.reads >= 2
        /\ (StartsBlank /\ wg.reads >= 2) =>
              /\ wg.slept = empty_wait_seconds + wg.wait_cycles
              /\ (second.ok /\ Blank(second.v)) =>
                    /\ wg.pc = "returned"
                    /\ wg.ret
                    /\ wg.path = "no_typing"
                    /\ wg.reads = 2
                    /\ wg.wait_cycles = 0
              /\ (second.ok /\ ~Blank(second.v)) =>
                    /\ wg.reads = 2 =>
                          (wg.pc = "monitor" /\ wg.stable_count = 0 /\ wg.wait_cycles = 0)
                    /\ wg.pc = "returned" =>
                          /\ wg.wait_cycles >= 1
                          /\ wg.path \in {"stable", "max_wait", "poll_read_raised"}
                          /\ wg.path = "stable" <=> wg.stable_count = stable_needed
        /\ (ReadAt(wg_stream, 1).ok /\ ~Blank(ReadAt(wg_stream, 1).v)) =>
              wg.slept = wg.wait_cycles

\* a blank field in which "ab" has appeared after the wait: the guard
\* polled and returned stable
C20_Witness ==
    /\ StartsBlank
    /\ wg.initial_value = " "
    /\ ReadAt(wg_stream, 2) = Rd("ab")
    /\ wg.pc = "returned"
    /\ wg.path = "stable"
    /\ wg.slept = empty_wait_seconds + wg.wait_cycles


\* C21: wait_for_typing_completion always terminates: on every value
\* stream, one that changes at every poll included, it makes at most
\* max_wait (30) polls, one second apart, and then returns; the cycle
\* counter never exceeds max_wait
C21_Terminates ==
    /\ <>(wg.pc = "returned")
    /\ [](/\ wg.wait_cycles \in 0..max_wait_default
          /\ wg.reads <= wg.wait_cycles + 2
          /\ wg.slept \in {wg.wait_cycles, wg.wait_cycles + empty_wait_seconds}
          /\ wg.path = "max_wait" => (wg.ret /\ wg.wait_cycles = max_wait_default))

\* a field whose value changes at every poll: the guard returned after the
\* thirtieth poll
C21_Witness ==
    /\ wg.pc = "returned"
    /\ wg.path = "max_wait"
    /\ wg.wait_cycles = max_wait_default
    /\ wg_stream.cycle = <<Rd("a"), Rd("ab")>>
    /\ wg.stable_count = 0


---------------------------------------------------------------------------
(* Claims about smart_button_click, checked under SpecClick *)

\* the value of the associated input when its button is about to be clicked
CurrentValue == ReadAt(sc_in.stream, 1)

\* C22: when a button is about to be clicked the guard runs exactly when
\* the button's category is submit, search or navigation, it has an
\* associated input, and that input's current value is empty or white space
\* or typing was seen in the last 3 seconds; otherwise the button is
\* clicked with no wait.  An input filled at the scan and empty now
\* triggers the guard.  (Stated for the calls in which the input's value
\* can be read)
C22_GuardEntry ==
    (sc_pc = "return" /\ (sc_in.button_info.associated_input.present => CurrentValue.ok)) =>
        LET b == sc_in.button_info IN
        /\ sc_out.entered
             <=> /\ b.category \in {"submit", "search", "navigation"}
                 /\ b.associated_input.present
                 /\ \/ CurrentValue.v \in {"", " "}
                    \/ sc_in.now - last_typing_time < 3
        /\ ~sc_out.entered => (sc_out.clicked /\ sc_out.guard.slept = 0)


---------------------------------------------------------------------------
(* Claims about is_typing_in_progress, checked under SpecFlag *)

\* C23: is_typing_in_progress follows the fill operations: it is true
\* during the 3 seconds after a fill operation has completed and false
\* once 3 seconds have passed without another fill; it is false when no
\* fill was ever made
C23_FlagFollowsFills ==
    is_typing_in_progress(fl_clock, last_typing_time)
        <=> (fl_last_fill # 0 /\ fl_clock - fl_last_fill < 3)


---------------------------------------------------------------------------
(* Claims about find_all_buttons, checked under SpecScan *)

\* the element at position k of the scanned document
ScannedElement(k) == ElementPool[fs_in.doc[k]]

\* tag name, class attribute and inner text of an element
TripleOf(e) == <<e.tag_name, AttrStr(e, "class"), e.inner_text>>

\* the selectors that match the element at position k and whose query
\* does not raise
SelectorsOf(k) ==
    { s \in 1..Len(button_selectors) :
        s \notin fs_in.failing /\ fs_in.doc[k] \in SelectorHits[s] }

\* C24: a failure while one element is accessed makes the scan skip that
\* element only: every visible, enabled element that can be accessed and
\* that a selector matches is analysed and reported (by a record of its
\* own, or of an element with its tag, class and text)
C24_SkipsOnlyFailing ==
    fs_pc = "return" =>
        \A k \in 1..Len(fs_in.doc) :
            (/\ ScannedElement(k).fault = "none"
             /\ ScannedElement(k).visible
             /\ ScannedElement(k).enabled
             /\ SelectorsOf(k) # {}) =>
                \E j \in 1..Len(fs_out) :
                    TripleOf(ScannedElement(fs_out[j].element))
                        = TripleOf(ScannedElement(k))


\* the first selector that matches the element at position k
FirstSelector(k) ==
    CHOOSE s \in SelectorsOf(k) : \A t \in SelectorsOf(k) : s <= t

\* no access raises during the scan
NothingRaises ==
    /\ fs_in.failing = {}
    /\ \A k \in 1..Len(fs_in.doc) : ScannedElement(k).fault = "none"

---------------------------------------------------------------------------
(* Claims about the keyword tables, checked under SpecKw *)

\* C25: no keyword of the tables is dead: a combined text that is one
\* keyword listed for cookie_consent, terms_agreement, navigation, search,
\* choice or cancel (type attribute not "submit", tag not button) is given
\* the category the keyword is listed for
C25_NoDeadKeyword ==
    cb_pc = "return" =>
        \A c \in DOMAIN KeywordTables :
            (\E k \in 1..Len(KeywordTables[c]) :
                 KeywordTables[c][k] = cb_in.combined_text)
                => cb_out.category = c


---------------------------------------------------------------------------
(* Claims about the handlers and the session, checked under Spec *)

\* the positions of the attempts made on submit and navigation buttons
LeavingAttempts ==
    { k \in 1..Len(results) : results[k].category \in {"submit", "navigation"} }

\* C26: in one call of process_all_buttons at most one button of category
\* submit or navigation is attempted, and it is the last one attempted; when
\* the filtered list holds a submit or navigation button, no button of
\* category search, choice, general or cancel is clicked in that call
C26_OneLeavingButton ==
    req.handler = "process_buttons" =>
        /\ Cardinality(LeavingAttempts) <= 1
        /\ \A k \in LeavingAttempts : pc # "loop" /\ k = Len(results)
        /\ (\E k \in 1..Len(buttons) :
                buttons[k].category \in {"submit", "navigation"})
              => /\ \A k \in 1..Len(results) :
                       results[k].category
                           \notin {"search", "choice", "general", "cancel"}
                 /\ \A k \in 1..Len(clicks) :
                       ClickedButtons[k].category
                           \notin {"search", "choice", "general", "cancel"}

\* the list held a submit button, a navigation button and a general or
\* cancel button: the submit button was attempted, nothing else
C26_Witness ==
    /\ ProcessDone
    /\ response.success
    /\ Len(buttons) = 3
    /\ buttons[1].category = "submit"
    /\ buttons[2].category = "navigation"
    /\ buttons[3].category \in {"general", "cancel"}
    /\ Len(results) = 1
    /\ Len(clicks) = 1


\* start_session has answered that it failed
StartFailed ==
    /\ pc = "done"
    /\ req.handler = "start_session"
    /\ ~response.success

\* C27: in every state reached by start_session, close_session and the
\* requests, the browser handle is set only if the page handle is set; a
\* start_session that reports a failure, also one whose connection
\* succeeded and whose page could not be obtained, leaves the browser handle
\* unset, so that later requests are answered "Please start session first"
C27_BrowserOnlyWithPage ==
    /\ browser => page
    /\ StartFailed => ~browser
    /\ (pc = "done" /\ req.handler \in {"process_buttons", "scan_buttons"}
        /\ req.url # "" /\ ~page)
          => response = [success |-> FALSE,
                         message |-> "Please start session first"]


---------------------------------------------------------------------------
(* Claims about the Playwright driver, checked under SpecDrivers *)

\* C28: at most one Playwright driver is started and not stopped at any
\* time, also when start_session fails to connect: a driver is started only
\* after the one before was stopped, and none runs after close_session
C28_OneDriver ==
    /\ dr_running <= 1
    /\ (pc = "done" /\ req.handler = "close_session") => dr_running = 0


---------------------------------------------------------------------------
(* Claims about the session gate, checked under SpecGate *)

\* a session is open: the last start_session succeeded and no
\* close_session came after it
SessionOpen == browser /\ page

Gated == {"process_buttons", "scan_buttons", "click_specific_button"}

\* C29: process_buttons, scan_buttons and click_specific_button navigate,
\* scan or click only while a session is open; with no session started, or
\* after close_session, each answers success = false with "Please start
\* session first" and neither navigates nor clicks; a request without url is
\* answered "Please provide page URL" before the session is looked at
C29_SessionGating ==
    req.handler \in Gated =>
        /\ (document # <<>> \/ scanned # <<>> \/ clicks # <<>>) => SessionOpen
        /\ (pc = "done" /\ req.url = "") =>
              /\ response = [success |-> FALSE,
                             message |-> "Please provide page URL"]
              /\ document = <<>> /\ clicks = <<>>
        /\ (pc = "done" /\ req.url # "" /\ ~SessionOpen) =>
              /\ response = [success |-> FALSE,
                             message |-> "Please start session first"]
              /\ document = <<>> /\ clicks = <<>>

====
